---- MODULE Spec2Model ----
(***************************************************************************)
(* A model of the acquisition orchestrator of pricepulse-ai-tracker:       *)
(*   - the proxy ("intermediary") health registry of utils/proxyUtils.ts,  *)
(*     which holds two generations of the registry in one file: the older  *)
(*     one (lines 1-183) and the advanced one (lines 185-543);             *)
(*   - the localStorage result cache of utils/cacheUtils, also in two      *)
(*     generations: the basic one and the guarded one, which catches       *)
(*     storage errors and frees space when the quota is exceeded;          *)
(*   - the method cascade of scrapeAmazonProduct.                          *)
(*                                                                         *)
(* Time is counted in minutes: Date.now() / 60000. Every duration of the   *)
(* source that the model uses is a whole number of minutes.                *)
(***************************************************************************)
EXTENDS Integers, Sequences, FiniteSets, TLC

VARIABLES
    now,                \* the wall clock (Date.now()), in minutes
    generation,         \* which generation of the registry the build uses
    callLimit,          \* how many record calls the run makes on a registry
    proxyStats,         \* advanced registry: proxy -> ProxyStats (proxyUtils.ts:217)
    proxyOrder,         \* advanced registry: the key order of proxyStats (Object.keys)
    platformProxyMap,   \* advanced registry: platform -> preference (proxyUtils.ts:220)
    rateLimitLog,       \* per proxy, the windows logged by its latest run of block failures
    proxyStatsOld,      \* older registry: proxy -> {success, failure, lastUsed} (proxyUtils.ts:18)
    rateLimitedProxies, \* older registry: proxy -> expiry (proxyUtils.ts:95)
    platformStore,      \* localStorage items proxy_<platform> (proxyUtils.ts:80, 177)
    cacheGeneration,    \* which generation of utils/cacheUtils the build uses
    productStore,       \* localStorage item pricepulse_product_cache
    comparisonStore,    \* localStorage item pricepulse_comparison_cache
    pipe,               \* the running scrapeAmazonProduct call
    search,             \* the running searchProductOnPlatforms call
    branch,             \* per platform, its branch of the running search
    fetchCall,          \* the running fetchWithRetry call
    ret                 \* the last operation performed, its arguments and what it returned

vars == <<now, generation, callLimit, fetchCall, search, branch, proxyStats, proxyOrder, platformProxyMap, rateLimitLog, proxyStatsOld, rateLimitedProxies,
          platformStore, cacheGeneration, productStore, comparisonStore, pipe, ret>>

registryVars == <<proxyStats, proxyOrder, platformProxyMap, rateLimitLog>>
oldRegistryVars == <<proxyStatsOld, rateLimitedProxies, platformStore>>
cacheVars == <<cacheGeneration, productStore, comparisonStore>>
compareVars == <<search, branch>>

-----------------------------------------------------------------------------
(* Bounds of the model *)

MaxCalls == 2           \* record calls made on a registry in one run (callLimit)
SuspensionCalls == 5    \* ... in a run that builds up a long suspension
MaxRetries == 4         \* the greatest maxRetries that a retrying call is given
T0 == 1000              \* Date.now() when the page loads: far from 0
StorageCapacity == 2    \* entries of one store that fit into the storage

(* Program constants, in minutes *)

RATE_LIMIT_WINDOW == 30 \* 30 * 60 * 1000 ms
MAX_BACKOFF == 120      \* "With a max of 2 hours"
OLD_RATE_LIMIT == 2     \* 2 * 60 * 1000 ms
RECENCY_WINDOW == 30    \* minutesSinceLastSuccess < 30
MAX_RESPONSE_TIMES == 10
MAX_BLOCKED_PATTERNS == 20
PRODUCT_CACHE_TTL == 30 \* 30 * 60 * 1000 ms
COMPARISON_CACHE_TTL == 60 \* 60 * 60 * 1000 ms
FETCH_TIMEOUT == 20000  \* fetchWithRetry: timeoutMs, ms
BACKOFF_BASE == 1000    \* fetchWithRetry: the first delay, ms
BACKOFF_CAP == 8000     \* fetchWithRetry: the greatest delay, ms
ADVANCED_BACKOFF == 1000 \* fetchWithAdvancedHandling: the unit of its waits, ms
OXYLABS_BACKOFF == 1000 \* OxylabsService.scrapeAmazonProduct: the unit of its waits, ms
ATTEMPT_DELAY == 1500   \* searchProductOnPlatforms: the unit of the waits of a branch, ms
BASE_TIMEOUT == 20000   \* getAdaptiveTimeout: baseTimeout, ms
MIN_TIMEOUT == 10000    \* getAdaptiveTimeout: the least timeout, ms
MAX_TIMEOUT == 40000    \* getAdaptiveTimeout: the greatest timeout, ms
OXYLABS_MAX_RETRIES == 3 \* maxRetries of OxylabsService.scrapeAmazonProduct

Null == -1              \* null / undefined for a timestamp

-----------------------------------------------------------------------------
(* Values *)

\* CORS_PROXIES, shortened to three entries
CORS_PROXIES == <<"p1", "p2", "p3">>

Proxies == {CORS_PROXIES[i] : i \in 1..Len(CORS_PROXIES)}

NoProxy == "undefined"  \* no proxy: undefined / null
NoPlatform == "none"    \* the platform argument left out
Platforms == {"amazon"}

\* A reason string is known to the code only through String.includes on four
\* patterns, so it is represented by the set of the patterns it contains.
\* NoReason is an absent (or empty, falsy) reason.
Patterns == {"rate limit", "captcha", "blocked", "forbidden"}
NoReason == {"<none>"}
Includes(reason, pattern) == pattern \in reason

NoCode == 0             \* statusCode left out

Range(s) == {s[i] : i \in 1..Len(s)}

Max(a, b) == IF a >= b THEN a ELSE b
Min(a, b) == IF a <= b THEN a ELSE b

RECURSIVE Pow2(_)
Pow2(n) == IF n = 0 THEN 1 ELSE 2 * Pow2(n - 1)

RECURSIVE SumSeq(_)
SumSeq(s) == IF s = <<>> THEN 0 ELSE Head(s) + SumSeq(Tail(s))

RECURSIVE GCD(_, _)
GCD(a, b) == IF b = 0 THEN a ELSE GCD(b, a % b)

\* Exact fractions <<numerator, denominator>>, denominator > 0. Frac keeps them
\* in lowest terms, which keeps the products below small.
Frac(n, d) ==
    LET g == GCD(IF n < 0 THEN -n ELSE n, d)
    IN  <<n \div g, d \div g>>
FracLess(a, b) == a[1] * b[2] < b[1] * a[2]
FracAdd(a, b) == Frac(a[1] * b[2] + b[1] * a[2], a[2] * b[2])

\* The index array.sort(cmp)[0] takes: sort is stable, so the first of the
\* least elements in the order "less"
FirstLeast(n, less(_, _)) ==
    CHOOSE i \in 1..n :
        /\ \A j \in 1..n : ~less(j, i)
        /\ \A j \in 1..(i - 1) : less(i, j)

-----------------------------------------------------------------------------
(* The advanced registry, proxyUtils.ts:185-543 *)

FreshStats ==
    [successCount |-> 0, failureCount |-> 0, lastSuccess |-> Null,
     lastFailure |-> Null, averageResponseTime |-> <<0, 1>>,
     responseTimeData |-> <<>>, rateLimitedUntil |-> Null,
     blockedPatterns |-> <<>>, successRate |-> <<0, 1>>]

\* initializeProxies(proxies) applied to the registry "stats"
initializeProxies(stats, proxies) ==
    [p \in DOMAIN stats \cup Range(proxies) |->
        IF p \in DOMAIN stats THEN stats[p] ELSE FreshStats]

\* the key order of proxyStats after initializeProxies(proxies)
RECURSIVE initializeOrder(_, _)
initializeOrder(order, proxies) ==
    IF proxies = <<>> THEN order
    ELSE initializeOrder(IF Head(proxies) \in Range(order) THEN order
                         ELSE Append(order, Head(proxies)),
                         Tail(proxies))

\* totalRequests > 0 ? successCount / totalRequests : 0
SuccessRateOf(successCount, failureCount) ==
    IF successCount + failureCount > 0
    THEN <<successCount, successCount + failureCount>>
    ELSE <<0, 1>>

\* Mutant: a suspension that never runs out
isProxyRateLimited_Forever(stats, proxy, t) ==
    /\ proxy \in DOMAIN stats
    /\ stats[proxy].rateLimitedUntil # Null

\* isProxyRateLimited(proxy) of the advanced registry
isProxyRateLimited(stats, proxy, t) ==
    /\ proxy \in DOMAIN stats
    /\ stats[proxy].rateLimitedUntil # Null
    /\ stats[proxy].rateLimitedUntil > t

\* Mutant: the filter lets every proxy through
NotRateLimitedAt_NoFilter(stats, proxy, t) == TRUE

\* the filter of getBestAvailableProxy and markProxyRateLimited
NotRateLimitedAt(stats, proxy, t) ==
    \/ stats[proxy].rateLimitedUntil = Null
    \/ stats[proxy].rateLimitedUntil < t

\* The filter that counts the recent rate limits. In the source && binds
\* tighter than ||, so the 30-minute window applies to 'blocked' alone.
IsRecentRateLimit(bp, t) ==
    \/ Includes(bp.reason, "rate limit")
    \/ Includes(bp.reason, "captcha")
    \/ (Includes(bp.reason, "blocked") /\ t - bp.timestamp < RATE_LIMIT_WINDOW)

BackoffMinutes(stats, proxy, t) ==
    LET recentRateLimits ==
            Len(SelectSeq(stats[proxy].blockedPatterns,
                          LAMBDA bp : IsRecentRateLimit(bp, t)))
    IN  Min(Pow2(recentRateLimits), MAX_BACKOFF)

\* the alternatives of markProxyRateLimited, sorted by success rate, descending
AlternativeFor(stats, order, proxy, t) ==
    LET keys == {p \in DOMAIN stats : p # proxy /\ NotRateLimitedAt(stats, p, t)}
        alts == SelectSeq(order, LAMBDA p : p \in keys)
        better(i, j) == FracLess(stats[alts[j]].successRate, stats[alts[i]].successRate)
    IN  IF alts = <<>> THEN NoProxy ELSE alts[FirstLeast(Len(alts), better)]

\* markProxyRateLimited(proxy, platform): the registry and the preference map after it
MarkRateLimitedStats(stats, proxy, t) ==
    LET s1 == initializeProxies(stats, <<proxy>>)
    IN  [s1 EXCEPT ![proxy].rateLimitedUntil = t + BackoffMinutes(s1, proxy, t)]

MarkRateLimitedMap(stats, order, map, proxy, platform, t) ==
    LET s2 == MarkRateLimitedStats(stats, proxy, t)
        o2 == initializeOrder(order, <<proxy>>)
    IN  IF /\ platform # NoPlatform
           /\ platform \in DOMAIN map
           /\ map[platform].bestProxy = proxy
           /\ AlternativeFor(s2, o2, proxy, t) # NoProxy
        THEN [map EXCEPT ![platform].bestProxy = AlternativeFor(s2, o2, proxy, t)]
        ELSE map

\* statusCode ? `${reason} (${statusCode})` : reason. The suffix " (403)" holds
\* none of the patterns, so the stored reason contains the patterns of reason.
BlockedPattern(platform, reason, statusCode, t) ==
    [platform |-> platform, reason |-> reason, timestamp |-> t]

IsRateLimitedFailure(reason, statusCode) ==
    \/ statusCode = 429 \/ statusCode = 403
    \/ Includes(reason, "rate limit")
    \/ Includes(reason, "captcha")
    \/ Includes(reason, "blocked")
    \/ Includes(reason, "forbidden")

PushBounded(s, x, limit) ==
    IF Len(s) + 1 > limit THEN Tail(Append(s, x)) ELSE Append(s, x)

\* The score of getBestAvailableProxy, as an exact fraction
ResponseTimeScore(st) ==
    IF Len(st.responseTimeData) = 0 THEN <<15, 1>>
    ELSE LET avg == IF st.averageResponseTime[1] = 0 THEN <<2000, 1>>
                    ELSE st.averageResponseTime
             \* 30 - (avgTime - 500) / 150
             raw == Frac(5000 * avg[2] - avg[1], 150 * avg[2])
         IN  IF raw[1] < 0 THEN <<0, 1>>
             ELSE IF FracLess(<<30, 1>>, raw) THEN <<30, 1>>
             ELSE raw

RecencyBonus(st, t) ==
    IF st.lastSuccess # Null /\ t - st.lastSuccess < RECENCY_WINDOW
    THEN Frac(10 * (RECENCY_WINDOW - (t - st.lastSuccess)), RECENCY_WINDOW)
    ELSE <<0, 1>>

Score(st, t) ==
    FracAdd(FracAdd(Frac(70 * st.successRate[1], st.successRate[2]),
                    ResponseTimeScore(st)),
            RecencyBonus(st, t))

\* Mutant: the sort is by timeB - timeA
SoonestAvailable_Latest(stats, proxies) ==
    LET time(i) == IF stats[proxies[i]].rateLimitedUntil = Null THEN 0
                   ELSE stats[proxies[i]].rateLimitedUntil
        later(i, j) == time(i) > time(j)
    IN  proxies[FirstLeast(Len(proxies), later)]

\* the proxy all of whose candidates are rate limited: sort by rateLimitedUntil
SoonestAvailable(stats, proxies) ==
    LET time(i) == IF stats[proxies[i]].rateLimitedUntil = Null THEN 0
                   ELSE stats[proxies[i]].rateLimitedUntil
        sooner(i, j) == time(i) < time(j)
    IN  proxies[FirstLeast(Len(proxies), sooner)]

\* getBestAvailableProxy(proxies): what it returns, on the initialized registry
BestAvailableProxy(stats, proxies, t) ==
    LET availableProxies == SelectSeq(proxies, LAMBDA p : NotRateLimitedAt(stats, p, t))
        higher(i, j) == FracLess(Score(stats[availableProxies[j]], t),
                                 Score(stats[availableProxies[i]], t))
    IN  IF proxies = <<>> THEN NoProxy
        ELSE IF availableProxies = <<>> THEN SoonestAvailable(stats, proxies)
        ELSE availableProxies[FirstLeast(Len(availableProxies), higher)]

\* the record calls made so far on the advanced registry
RECURSIVE CallsOf(_, _)
CallsOf(stats, ps) ==
    IF ps = {} THEN 0
    ELSE LET p == CHOOSE q \in ps : TRUE
         IN  stats[p].successCount + stats[p].failureCount + CallsOf(stats, ps \ {p})

CallsMade == CallsOf(proxyStats, DOMAIN proxyStats)

-----------------------------------------------------------------------------
(* The operations of the advanced registry *)

\* recordProxySuccess(proxy, responseTime, platform): the registry after it
SuccessStats(stats, proxy, responseTime, t) ==
    LET s1 == initializeProxies(stats, <<proxy>>)
        st == s1[proxy]
        data == PushBounded(st.responseTimeData, responseTime, MAX_RESPONSE_TIMES)
    IN  [s1 EXCEPT ![proxy] =
            [st EXCEPT !.successCount = @ + 1,
                       !.lastSuccess = t,
                       !.responseTimeData = data,
                       !.averageResponseTime = <<SumSeq(data), Len(data)>>,
                       !.successRate = SuccessRateOf(st.successCount + 1, st.failureCount)]]

\* ... and the preference map after it
SuccessMap(stats, map, proxy, responseTime, platform, t) ==
    LET rate == SuccessStats(stats, proxy, responseTime, t)[proxy].successRate
        platformData == IF platform \in DOMAIN map THEN map[platform]
                        ELSE [bestProxy |-> proxy, lastUsed |-> t, successRate |-> <<0, 1>>]
        platformData2 == IF FracLess(platformData.successRate, rate)
                         THEN [platformData EXCEPT !.bestProxy = proxy, !.successRate = rate]
                         ELSE platformData
    IN  IF platform = NoPlatform THEN map
        ELSE [q \in DOMAIN map \cup {platform} |->
                IF q = platform THEN [platformData2 EXCEPT !.lastUsed = t] ELSE map[q]]

RecordProxySuccess(proxy, responseTime, platform) ==
    /\ generation = "advanced"
    /\ CallsMade < callLimit
    /\ proxyStats' = SuccessStats(proxyStats, proxy, responseTime, now)
    /\ proxyOrder' = initializeOrder(proxyOrder, <<proxy>>)
    /\ platformProxyMap' = SuccessMap(proxyStats, platformProxyMap, proxy, responseTime, platform, now)
    /\ rateLimitLog' = [rateLimitLog EXCEPT ![proxy] = <<>>]
    /\ ret' = [op |-> "recordProxySuccess", proxy |-> proxy]
    /\ UNCHANGED <<now, generation, callLimit, fetchCall, compareVars, oldRegistryVars, cacheVars, pipe>>

\* recordProxyFailure: the failure is a block that suspends the proxy
FailureRateLimits(platform, reason, statusCode) ==
    /\ platform # NoPlatform
    /\ reason # NoReason
    /\ IsRateLimitedFailure(reason, statusCode)

\* recordProxyFailure(proxy, platform, reason, statusCode): the registry with
\* the failure counted, before any suspension
FailureCounted(stats, proxy, platform, reason, statusCode, t) ==
    LET s1 == initializeProxies(stats, <<proxy>>)
        st == s1[proxy]
    IN  [s1 EXCEPT ![proxy] =
            [st EXCEPT !.failureCount = @ + 1,
                       !.lastFailure = t,
                       !.successRate = SuccessRateOf(st.successCount, st.failureCount + 1),
                       !.blockedPatterns =
                           IF platform # NoPlatform /\ reason # NoReason
                           THEN PushBounded(@, BlockedPattern(platform, reason, statusCode, t),
                                            MAX_BLOCKED_PATTERNS)
                           ELSE @]]

\* ... the registry after it
FailureStats(stats, proxy, platform, reason, statusCode, t) ==
    LET s2 == FailureCounted(stats, proxy, platform, reason, statusCode, t)
    IN  IF FailureRateLimits(platform, reason, statusCode)
        THEN MarkRateLimitedStats(s2, proxy, t) ELSE s2

\* ... and the preference map after it
FailureMap(stats, order, map, proxy, platform, reason, statusCode, t) ==
    IF FailureRateLimits(platform, reason, statusCode)
    THEN MarkRateLimitedMap(FailureCounted(stats, proxy, platform, reason, statusCode, t),
                            initializeOrder(order, <<proxy>>), map, proxy, platform, t)
    ELSE map

RecordProxyFailure(proxy, platform, reason, statusCode) ==
    LET isRateLimited == FailureRateLimits(platform, reason, statusCode)
        s2 == FailureCounted(proxyStats, proxy, platform, reason, statusCode, now)
    IN  /\ generation = "advanced"
        /\ CallsMade < callLimit
        /\ proxyOrder' = initializeOrder(proxyOrder, <<proxy>>)
        /\ proxyStats' = FailureStats(proxyStats, proxy, platform, reason, statusCode, now)
        /\ platformProxyMap' = FailureMap(proxyStats, proxyOrder, platformProxyMap,
                                          proxy, platform, reason, statusCode, now)
        /\ rateLimitLog' =
              [rateLimitLog EXCEPT ![proxy] =
                  IF isRateLimited
                  THEN Append(@, [at |-> now, minutes |-> BackoffMinutes(s2, proxy, now)])
                  ELSE <<>>]
        /\ ret' = [op |-> "recordProxyFailure", proxy |-> proxy,
                   platform |-> platform, reason |-> reason,
                   statusCode |-> statusCode, rateLimited |-> isRateLimited]
        /\ UNCHANGED <<now, generation, callLimit, fetchCall, compareVars, oldRegistryVars, cacheVars, pipe>>

\* markProxyRateLimited(proxy, platform) called on its own
MarkProxyRateLimited(proxy, platform) ==
    /\ generation = "advanced"
    /\ proxyStats' = MarkRateLimitedStats(proxyStats, proxy, now)
    /\ proxyOrder' = initializeOrder(proxyOrder, <<proxy>>)
    /\ platformProxyMap' =
          MarkRateLimitedMap(proxyStats, proxyOrder, platformProxyMap, proxy, platform, now)
    /\ ret' = [op |-> "markProxyRateLimited", proxy |-> proxy]
    /\ UNCHANGED <<now, generation, callLimit, fetchCall, compareVars, rateLimitLog, oldRegistryVars, cacheVars, pipe>>

GetBestAvailableProxy(proxies) ==
    LET s1 == initializeProxies(proxyStats, proxies)
    IN  /\ generation = "advanced"
        /\ proxyStats' = s1
        /\ proxyOrder' = initializeOrder(proxyOrder, proxies)
        /\ ret' = [op |-> "getBestAvailableProxy", proxies |-> proxies,
                   platform |-> NoPlatform,
                   result |-> BestAvailableProxy(s1, proxies, now)]
        /\ UNCHANGED <<now, generation, callLimit, fetchCall, compareVars, platformProxyMap, rateLimitLog, oldRegistryVars, cacheVars, pipe>>

GetBestProxyForPlatform(proxies, platform) ==
    /\ generation = "advanced"
    /\ IF /\ platform \in DOMAIN platformProxyMap
          /\ ~isProxyRateLimited(proxyStats, platformProxyMap[platform].bestProxy, now)
       THEN /\ ret' = [op |-> "getBestProxyForPlatform", proxies |-> proxies,
                       platform |-> platform,
                       result |-> platformProxyMap[platform].bestProxy]
            /\ UNCHANGED <<now, generation, callLimit, fetchCall, compareVars, registryVars, oldRegistryVars, cacheVars, pipe>>
       ELSE LET s1 == initializeProxies(proxyStats, proxies)
            IN  /\ proxyStats' = s1
                /\ proxyOrder' = initializeOrder(proxyOrder, proxies)
                /\ ret' = [op |-> "getBestProxyForPlatform", proxies |-> proxies,
                           platform |-> platform,
                           result |-> BestAvailableProxy(s1, proxies, now)]
                /\ UNCHANGED <<now, generation, callLimit, fetchCall, compareVars, platformProxyMap, rateLimitLog,
                               oldRegistryVars, cacheVars, pipe>>

-----------------------------------------------------------------------------
(* The older registry, proxyUtils.ts:1-183 *)

FreshStatsOld == [success |-> 0, failure |-> 0, lastUsed |-> 0]

initProxyStats(stats, proxies) ==
    [p \in DOMAIN stats \cup Range(proxies) |->
        IF p \in DOMAIN stats THEN stats[p] ELSE FreshStatsOld]

\* stats.success / (stats.success + stats.failure + 1)
SuccessRateOld(st) == Frac(st.success, st.success + st.failure + 1)

\* successRate + (timeSinceLastUse / 60000)
ScoreOld(st, t) == FracAdd(SuccessRateOld(st), <<t - st.lastUsed, 1>>)

\* the loop of getBestProxy and getNonRateLimitedProxy: the first proxy whose
\* score is above every earlier one's (score > bestScore, from -1)
BestByScoreOld(stats, proxies, t) ==
    LET higher(i, j) == FracLess(ScoreOld(stats[proxies[j]], t), ScoreOld(stats[proxies[i]], t))
    IN  proxies[FirstLeast(Len(proxies), higher)]

\* `proxy_${platform.toLowerCase().replace(/\s+/g, '_')}`
PlatformKey(platform) ==
    CASE platform = "amazon" -> "proxy_amazon"
      [] platform = "Amazon" -> "proxy_amazon"
      [] platform = "Swiggy Instamart" -> "proxy_swiggy_instamart"
      [] platform = "Flipkart" -> "proxy_flipkart"
      [] platform = "Meesho" -> "proxy_meesho"
      [] OTHER -> "proxy_other"

\* isProxyRateLimited(proxy) of the older registry: what it returns
isProxyRateLimitedOld(limited, proxy, t) ==
    /\ proxy \in DOMAIN limited
    /\ ~(t > limited[proxy])

\* ... and the map it leaves after being asked about each of "asked":
\* an entry whose expiry has passed is deleted
ExpireAsked(limited, asked, t) ==
    [p \in {q \in DOMAIN limited : q \notin asked \/ ~(t > limited[q])} |-> limited[p]]

RECURSIVE CallsOfOld(_, _)
CallsOfOld(stats, ps) ==
    IF ps = {} THEN 0
    ELSE LET p == CHOOSE q \in ps : TRUE
         IN  stats[p].success + stats[p].failure + CallsOfOld(stats, ps \ {p})

CallsMadeOld == CallsOfOld(proxyStatsOld, DOMAIN proxyStatsOld)

\* what a selection leaves in the place of its result when it raises
Raised == "TypeError"

\* getBestProxy(proxies). Of an empty list bestProxy is proxies[0], undefined,
\* and proxyStats[bestProxy].lastUsed = now raises unless the registry holds
\* an entry of that name.
GetBestProxyResult(stats, proxies, t) ==
    IF proxies = <<>>
    THEN IF NoProxy \in DOMAIN stats THEN NoProxy ELSE Raised
    ELSE BestByScoreOld(initProxyStats(stats, proxies), proxies, t)

GetBestProxyStats(stats, proxies, t) ==
    IF GetBestProxyResult(stats, proxies, t) = Raised THEN stats
    ELSE [initProxyStats(stats, proxies) EXCEPT
             ![GetBestProxyResult(stats, proxies, t)].lastUsed = t]

GetBestProxy(proxies) ==
    /\ generation = "old"
    /\ proxyStatsOld' = GetBestProxyStats(proxyStatsOld, proxies, now)
    /\ ret' = [op |-> "getBestProxy", proxies |-> proxies, platform |-> NoPlatform,
               result |-> GetBestProxyResult(proxyStatsOld, proxies, now)]
    /\ UNCHANGED <<now, generation, callLimit, fetchCall, compareVars, registryVars, rateLimitedProxies, platformStore,
                   cacheVars, pipe>>

UpdateStatsOld(stats, proxy, success) ==
    IF proxy \in DOMAIN stats
    THEN IF success THEN [stats EXCEPT ![proxy].success = @ + 1]
         ELSE [stats EXCEPT ![proxy].failure = @ + 1]
    ELSE stats

UpdateProxyStats(proxy, success) ==
    /\ generation = "old"
    /\ CallsMadeOld < callLimit
    /\ proxyStatsOld' = UpdateStatsOld(proxyStatsOld, proxy, success)
    /\ ret' = [op |-> "updateProxyStats", proxy |-> proxy]
    /\ UNCHANGED <<now, generation, callLimit, fetchCall, compareVars, registryVars, rateLimitedProxies, platformStore,
                   cacheVars, pipe>>

\* getProxyForPlatform(proxies, platform); storageThrows: localStorage.getItem throws
GetProxyForPlatform(proxies, platform, storageThrows) ==
    LET key == PlatformKey(platform)
        stored == IF ~storageThrows /\ key \in DOMAIN platformStore
                  THEN platformStore[key] ELSE NoProxy
    IN  /\ generation = "old"
        /\ IF stored # NoProxy /\ stored \in Range(proxies)
           THEN /\ ret' = [op |-> "getProxyForPlatform", proxies |-> proxies,
                           platform |-> platform, result |-> stored]
                /\ UNCHANGED proxyStatsOld
           ELSE /\ proxyStatsOld' = GetBestProxyStats(proxyStatsOld, proxies, now)
                /\ ret' = [op |-> "getProxyForPlatform", proxies |-> proxies,
                           platform |-> platform,
                           result |-> GetBestProxyResult(proxyStatsOld, proxies, now)]
        /\ UNCHANGED <<now, generation, callLimit, fetchCall, compareVars, registryVars, rateLimitedProxies, platformStore,
                       cacheVars, pipe>>

\* markProxyRateLimited(proxy) of the older registry
MarkRateLimitedOld(limited, proxy, t) ==
    [p \in DOMAIN limited \cup {proxy} |->
        IF p = proxy THEN t + OLD_RATE_LIMIT ELSE limited[p]]

MarkProxyRateLimitedOld(proxy) ==
    /\ generation = "old"
    /\ rateLimitedProxies' = MarkRateLimitedOld(rateLimitedProxies, proxy, now)
    /\ ret' = [op |-> "markProxyRateLimitedOld", proxy |-> proxy]
    /\ UNCHANGED <<now, generation, callLimit, fetchCall, compareVars, registryVars, proxyStatsOld, platformStore,
                   cacheVars, pipe>>

\* the reduce of getNonRateLimitedProxy: the first proxy of the least expiry
SoonestAvailableOld(limited, proxies) ==
    LET sooner(i, j) == limited[proxies[i]] < limited[proxies[j]]
    IN  IF proxies = <<>> THEN NoProxy
        ELSE proxies[FirstLeast(Len(proxies), sooner)]

NonRateLimitedResult(stats, limited, proxies, t) ==
    LET availableProxies ==
            SelectSeq(proxies, LAMBDA p : ~isProxyRateLimitedOld(limited, p, t))
    IN  IF availableProxies = <<>> THEN SoonestAvailableOld(limited, proxies)
        ELSE BestByScoreOld(initProxyStats(stats, proxies), availableProxies, t)

\* getNonRateLimitedProxy(proxies): the statistics it leaves
NonRateLimitedStats(stats, limited, proxies, t) ==
    LET s1 == initProxyStats(stats, proxies)
    IN  IF \A p \in Range(proxies) : isProxyRateLimitedOld(limited, p, t) THEN s1
        ELSE [s1 EXCEPT ![NonRateLimitedResult(stats, limited, proxies, t)].lastUsed = t]

GetNonRateLimitedProxy(proxies) ==
    LET result == NonRateLimitedResult(proxyStatsOld, rateLimitedProxies, proxies, now)
    IN  /\ generation = "old"
        /\ rateLimitedProxies' = ExpireAsked(rateLimitedProxies, Range(proxies), now)
        /\ proxyStatsOld' = NonRateLimitedStats(proxyStatsOld, rateLimitedProxies, proxies, now)
        /\ ret' = [op |-> "getNonRateLimitedProxy", proxies |-> proxies,
                   platform |-> NoPlatform, result |-> result]
        /\ UNCHANGED <<now, generation, callLimit, fetchCall, compareVars, registryVars, platformStore, cacheVars, pipe>>

\* saveProxyForPlatform(proxy, platform, success); storageThrows: setItem throws
SaveProxyForPlatform(proxy, platform, success, storageThrows) ==
    /\ generation = "old"
    /\ CallsMadeOld < callLimit
    /\ proxyStatsOld' = UpdateStatsOld(proxyStatsOld, proxy, success)
    /\ platformStore' =
          IF success /\ ~storageThrows
          THEN [k \in DOMAIN platformStore \cup {PlatformKey(platform)} |->
                  IF k = PlatformKey(platform) THEN proxy ELSE platformStore[k]]
          ELSE platformStore
    /\ ret' = [op |-> "saveProxyForPlatform", proxy |-> proxy]
    /\ UNCHANGED <<now, generation, callLimit, fetchCall, compareVars, registryVars, rateLimitedProxies, cacheVars, pipe>>

-----------------------------------------------------------------------------
(* The result cache, utils/cacheUtils: one localStorage item per store,      *)
(* holding a JSON object key -> {data, timestamp}. A store is the sequence   *)
(* of its entries in key order (the order in which the keys were added).     *)

\* null in the place of a record: no cached value, nothing returned
NoValue == [name |-> "null", lastUpdated |-> <<"null", 0>>]

\* a scraped record; lastUpdated: new Date() at the time of the scrape
ScrapedData(name, t) == [name |-> name, lastUpdated |-> <<"Date", t>>]

\* JSON.stringify and JSON.parse back: a Date comes out as a string
ToJSON(data) == [data EXCEPT !.lastUpdated = <<"string", @[2]>>]

\* new Date(item.lastUpdated)
ReviveDate(data) == [data EXCEPT !.lastUpdated = <<"Date", @[2]>>]

\* searchTerm.toLowerCase().trim(), on the terms of the model
NormalizeTerm(term) ==
    CASE term = " Milk " -> "milk"
      [] term = "MILK" -> "milk"
      [] term = "B01" -> "b01"
      [] OTHER -> term

IndexOf(store, key) ==
    IF \E i \in 1..Len(store) : store[i].key = key
    THEN CHOOSE i \in 1..Len(store) : store[i].key = key
    ELSE 0

HasKey(store, key) == IndexOf(store, key) # 0

\* cache[key] = {data, timestamp: Date.now()}, as the item will hold it
SetEntry(store, key, data, t) ==
    LET e == [key |-> key, data |-> ToJSON(data), timestamp |-> t]
    IN  IF HasKey(store, key) THEN [store EXCEPT ![IndexOf(store, key)] = e]
        ELSE Append(store, e)

\* delete cache[key]
DeleteKey(store, key) == SelectSeq(store, LAMBDA e : e.key # key)

\* entries.sort((a, b) => a[1].timestamp - b[1].timestamp): stable, oldest first
InsertByTimestamp(sorted, e) ==
    LET k == Cardinality({i \in 1..Len(sorted) : sorted[i].timestamp <= e.timestamp})
    IN  SubSeq(sorted, 1, k) \o <<e>> \o SubSeq(sorted, k + 1, Len(sorted))

RECURSIVE SortByTimestamp(_)
SortByTimestamp(entries) ==
    IF entries = << >> THEN << >>
    ELSE InsertByTimestamp(SortByTimestamp(SubSeq(entries, 1, Len(entries) - 1)),
                           entries[Len(entries)])

\* mutation of EntriesToKeep: nothing is removed
EntriesToKeep_All(currentCache) == SortByTimestamp(currentCache)

\* entries.slice(Math.floor(entries.length / 2)) of the sorted entries
EntriesToKeep(currentCache) ==
    LET entries == SortByTimestamp(currentCache)
    IN  SubSeq(entries, (Len(entries) \div 2) + 1, Len(entries))

\* What localStorage.setItem does with a write:
\*   "ok"         the item is written
\*   "error"      setItem throws something other than QuotaExceededError
\*   "quota-ok"   setItem throws QuotaExceededError; a second, smaller write passes
\*   "quota-fail" setItem throws QuotaExceededError, and so does a second write
StorageOutcomes == {"ok", "error", "quota-ok", "quota-fail"}

\* The storage holds StorageCapacity entries of a store at most: a write of
\* more is rejected for lack of space. Any other write may be rejected as well
\* (the quota is shared with the other items of the origin).
WritePossible(cache, outcome) ==
    /\ outcome \in StorageOutcomes
    /\ outcome = "ok" => Len(cache) <= StorageCapacity
    /\ outcome = "error" => Len(cache) <= StorageCapacity

\* saveProductCache(cache), saveComparisonCache(cache) of the guarded
\* generation: the item they leave, "stored" being the item before
saveCache(stored, cache, outcome) ==
    CASE outcome = "ok" -> cache
      [] outcome = "quota-ok" -> EntriesToKeep(stored)
      [] OTHER -> stored

\* saveProductCache(cache), saveComparisonCache(cache) of the basic
\* generation: setItem and nothing else; a rejected write throws
saveCacheBasic(stored, cache, outcome) ==
    IF outcome = "ok" THEN cache ELSE stored

SaveThrows(gen, outcome) == gen = "basic" /\ outcome # "ok"

SaveResult(gen, stored, cache, outcome) ==
    IF gen = "guarded" THEN saveCache(stored, cache, outcome)
    ELSE saveCacheBasic(stored, cache, outcome)

\* mutation of IsFresh: an entry never expires
IsFresh_Always(t, timestamp, ttl) == TRUE

\* Date.now() - cached.timestamp < TTL, the test of the guarded generation
IsFresh(t, timestamp, ttl) == t - timestamp < ttl

\* Date.now() - cachedItem.timestamp > TTL, the test of the basic generation
\* and of clearExpiredCache
IsExpired(t, timestamp, ttl) == t - timestamp > ttl

\* getCachedProduct(asin), getCachedComparison(searchTerm) of the guarded
\* generation, the key already normalised: what they return
CachedValue(store, key, t, ttl) ==
    IF HasKey(store, key) /\ IsFresh(t, store[IndexOf(store, key)].timestamp, ttl)
    THEN store[IndexOf(store, key)].data
    ELSE NoValue

\* getCachedProduct(query), getCachedComparison(query) of the basic
\* generation: what they return ...
CachedValueBasic(store, key, t, ttl) ==
    IF ~HasKey(store, key) THEN NoValue
    ELSE IF IsExpired(t, store[IndexOf(store, key)].timestamp, ttl) THEN NoValue
    ELSE ReviveDate(store[IndexOf(store, key)].data)

\* ... and the item they leave: an expired entry is deleted and the cache saved
CleanedOnGet(store, key, t, ttl) ==
    IF HasKey(store, key) /\ IsExpired(t, store[IndexOf(store, key)].timestamp, ttl)
    THEN DeleteKey(store, key)
    ELSE store

\* mutation of GetResult: the lookup is skipped
GetResult_Miss(gen, store, key, t, ttl) == NoValue

GetResult(gen, store, key, t, ttl) ==
    IF gen = "guarded" THEN CachedValue(store, key, t, ttl)
    ELSE CachedValueBasic(store, key, t, ttl)

\* the timestamp of the entry of a key, Null when there is none
CachedAt(store, key) ==
    IF HasKey(store, key) THEN store[IndexOf(store, key)].timestamp ELSE Null

\* the key under which a search term is cached
ComparisonKey(gen, term) == IF gen = "guarded" THEN NormalizeTerm(term) ELSE term

\* cacheProduct(asin, data)
CacheProduct(asin, data, outcome) ==
    LET cache == SetEntry(productStore, asin, data, now)
    IN  /\ WritePossible(cache, outcome)
        /\ cacheGeneration = "basic" => outcome \in {"ok", "quota-fail"}
        /\ productStore' = SaveResult(cacheGeneration, productStore, cache, outcome)
        /\ ret' = [op |-> "cacheProduct", key |-> asin, data |-> data,
                   outcome |-> outcome, before |-> Len(productStore),
                   threw |-> SaveThrows(cacheGeneration, outcome)]
        /\ UNCHANGED <<now, generation, callLimit, fetchCall, compareVars, registryVars, oldRegistryVars, cacheGeneration,
                       comparisonStore, pipe>>

\* getCachedProduct(asin)
GetCachedProduct(asin) ==
    /\ productStore' = IF cacheGeneration = "basic"
                       THEN CleanedOnGet(productStore, asin, now, PRODUCT_CACHE_TTL)
                       ELSE productStore
    /\ ret' = [op |-> "getCachedProduct", key |-> asin,
               cachedAt |-> CachedAt(productStore, asin),
               stored |-> IF HasKey(productStore, asin)
                          THEN productStore[IndexOf(productStore, asin)].data
                          ELSE NoValue,
               result |-> GetResult(cacheGeneration, productStore, asin, now,
                                    PRODUCT_CACHE_TTL)]
    /\ UNCHANGED <<now, generation, callLimit, fetchCall, compareVars, registryVars, oldRegistryVars, cacheGeneration,
                   comparisonStore, pipe>>

\* cacheComparison(searchTerm, data)
CacheComparison(searchTerm, data, outcome) ==
    LET key == ComparisonKey(cacheGeneration, searchTerm)
        cache == SetEntry(comparisonStore, key, data, now)
    IN  /\ WritePossible(cache, outcome)
        /\ cacheGeneration = "basic" => outcome \in {"ok", "quota-fail"}
        /\ comparisonStore' = SaveResult(cacheGeneration, comparisonStore, cache, outcome)
        /\ ret' = [op |-> "cacheComparison", key |-> searchTerm, data |-> data,
                   outcome |-> outcome, before |-> Len(comparisonStore),
                   threw |-> SaveThrows(cacheGeneration, outcome)]
        /\ UNCHANGED <<now, generation, callLimit, fetchCall, compareVars, registryVars, oldRegistryVars, cacheGeneration,
                       productStore, pipe>>

\* getCachedComparison(searchTerm)
GetCachedComparison(searchTerm) ==
    LET key == ComparisonKey(cacheGeneration, searchTerm)
    IN  /\ comparisonStore' =
              IF cacheGeneration = "basic"
              THEN CleanedOnGet(comparisonStore, key, now, COMPARISON_CACHE_TTL)
              ELSE comparisonStore
        /\ ret' = [op |-> "getCachedComparison", key |-> searchTerm,
                   cachedAt |-> CachedAt(comparisonStore, key),
                   stored |-> IF HasKey(comparisonStore, key)
                              THEN comparisonStore[IndexOf(comparisonStore, key)].data
                              ELSE NoValue,
                   result |-> GetResult(cacheGeneration, comparisonStore, key, now,
                                        COMPARISON_CACHE_TTL)]
        /\ UNCHANGED <<now, generation, callLimit, fetchCall, compareVars, registryVars, oldRegistryVars, cacheGeneration,
                       productStore, pipe>>

\* the entries clearExpiredCache leaves in a cache
Unexpired(store, t, ttl) ==
    SelectSeq(store, LAMBDA e : ~IsExpired(t, e.timestamp, ttl))

\* clearExpiredCache(), which only the guarded generation has: each store is
\* saved when an entry of it was deleted
ClearExpiredCache(productOutcome, comparisonOutcome) ==
    LET productCache == Unexpired(productStore, now, PRODUCT_CACHE_TTL)
        comparisonCache == Unexpired(comparisonStore, now, COMPARISON_CACHE_TTL)
    IN  /\ cacheGeneration = "guarded"
        /\ WritePossible(productCache, productOutcome)
        /\ WritePossible(comparisonCache, comparisonOutcome)
        /\ productCache = productStore => productOutcome = "ok"
        /\ comparisonCache = comparisonStore => comparisonOutcome = "ok"
        /\ productStore' = saveCache(productStore, productCache, productOutcome)
        /\ comparisonStore' = saveCache(comparisonStore, comparisonCache, comparisonOutcome)
        /\ ret' = [op |-> "clearExpiredCache"]
        /\ UNCHANGED <<now, generation, callLimit, fetchCall, compareVars, registryVars, oldRegistryVars, cacheGeneration, pipe>>

-----------------------------------------------------------------------------
(* scrapeAmazonProduct(url): the cascade of acquisition methods. The call    *)
(* uses the older registry (getNonRateLimitedProxy, isProxyRateLimited,      *)
(* markProxyRateLimited, updateProxyStats) and the guarded cache. Each       *)
(* attempt of a method (a request of Oxylabs, a turn of a proxy loop, the    *)
(* call of the server) is one step; pipe.attempts lists, in order, the       *)
(* method of every attempt made.                                             *)

NoAsin == "null"        \* null in the place of a product id

\* new URL(url).hostname.includes('amazon'), on the URLs of the model
isAmazonUrl(url) ==
    url \in {"https://www.amazon.in/dp/B01", "https://www.amazon.in/gp/help"}

\* extractASIN(url), on the Amazon URLs of the model
extractASIN(url) ==
    IF url = "https://www.amazon.in/dp/B01" THEN "B01" ELSE NoAsin

IdlePipe ==
    [pc |-> "idle", url |-> "", asin |-> NoAsin, i |-> 0, retries |-> 0,
     attempts |-> << >>, delays |-> << >>, result |-> NoValue, source |-> "none"]

\* the mock product returned when every method has failed
Placeholder(asin, t) ==
    [name |-> "Product information unavailable", lastUpdated |-> <<"Date", t>>]

\* mutation of Exhausted: nothing is returned when every method has failed
Exhausted_Null(asin, t) == NoValue

\* what the call returns when every method has failed
Exhausted(asin, t) == Placeholder(asin, t)

\* the call returns: pipe and ret afterwards
Returned(result, source, attempts) ==
    /\ pipe' = [pipe EXCEPT !.pc = "done", !.result = result, !.source = source,
                            !.attempts = attempts]
    /\ ret' = [op |-> "scrapeAmazonProduct", url |-> pipe.url, result |-> result]

\* cacheProduct(asin, productData) of the call, then return productData
CachedAndReturned(data, source, attempts, storage) ==
    LET cache == SetEntry(productStore, pipe.asin, data, now)
    IN  /\ WritePossible(cache, storage)
        /\ productStore' = saveCache(productStore, cache, storage)
        /\ Returned(data, source, attempts)

\* scrapeAmazonProduct(url) up to the first method: validation and cache lookup
ScrapeStart(url) ==
    /\ generation = "old"
    /\ cacheGeneration = "guarded"
    /\ pipe.pc = "idle"
    /\ IF ~isAmazonUrl(url) \/ extractASIN(url) = NoAsin
       THEN /\ pipe' = [pipe EXCEPT !.pc = "done", !.url = url, !.source = "invalid"]
            /\ ret' = [op |-> "scrapeAmazonProduct", url |-> url, result |-> NoValue]
       ELSE LET asin == extractASIN(url)
                cachedProduct == CachedValue(productStore, asin, now, PRODUCT_CACHE_TTL)
            IN  IF cachedProduct # NoValue
                THEN /\ pipe' = [pipe EXCEPT !.pc = "done", !.url = url, !.asin = asin,
                                             !.result = cachedProduct, !.source = "cache"]
                     /\ ret' = [op |-> "scrapeAmazonProduct", url |-> url,
                                result |-> cachedProduct]
                ELSE /\ pipe' = [pipe EXCEPT !.pc = "oxylabs", !.url = url, !.asin = asin]
                     /\ ret' = [op |-> "scrapeStep"]
    /\ UNCHANGED <<now, generation, callLimit, fetchCall, compareVars, registryVars, oldRegistryVars, cacheVars>>

\* mutation of OxylabsGivesUp: the first failed request ends the method
OxylabsGivesUp_AtOnce(retries, outcome) == TRUE

\* OxylabsService.scrapeAmazonProduct, after a failed request made with
\* "retries" retries behind it: does the service throw, or send another one?
\* A 429 counts a retry and the loop ends at maxRetries; any other failure is
\* rethrown once retries >= maxRetries - 1.
OxylabsGivesUp(retries, outcome) ==
    IF outcome = "429" THEN retries + 1 >= OXYLABS_MAX_RETRIES
    ELSE retries >= OXYLABS_MAX_RETRIES - 1

\* Math.pow(2, retries) * 1000, the wait before the next request
OxylabsBackoff(retries) == Pow2(retries) * OXYLABS_BACKOFF

OxylabsOutcomes == {"product", "429", "auth", "error", "noResults"}

\* one request of the Oxylabs method
OxylabsFetch(outcome, storage) ==
    LET attempts == Append(pipe.attempts, "oxylabs")
    IN  /\ pipe.pc = "oxylabs"
        /\ outcome \in OxylabsOutcomes
        /\ IF outcome = "product"
           THEN CachedAndReturned(ScrapedData(pipe.asin, now), "oxylabs", attempts, storage)
           ELSE /\ storage = "ok"
                /\ pipe' = IF OxylabsGivesUp(pipe.retries, outcome)
                           THEN [pipe EXCEPT !.pc = "strategy", !.i = 0, !.retries = 0,
                                             !.attempts = attempts]
                           ELSE [pipe EXCEPT !.retries = @ + 1, !.attempts = attempts,
                                             !.delays = Append(@, OxylabsBackoff(
                                                                    pipe.retries + 1))]
                /\ ret' = [op |-> "scrapeStep", outcome |-> outcome]
                /\ UNCHANGED productStore
        /\ UNCHANGED <<now, generation, callLimit, fetchCall, compareVars, registryVars, oldRegistryVars, cacheGeneration,
                       comparisonStore>>

StrategyOutcomes == {"throws", "blocked", "unparsed", "parsed", "blockedParsed"}

\* amazonScraping(url, proxy): the registry after it.
\*   "throws"        the fetch fails or the page is too short
\*   "blocked"       a bot-protection page without product data
\*   "unparsed"      a page with product markers
\*   "parsed"        the same, and parseAmazonProductHtml extracts a product
\*   "blockedParsed" a bot-protection page that still carries the product
StrategyLimited(limited, proxy, outcome, t) ==
    IF outcome \in {"blocked", "blockedParsed"} THEN MarkRateLimitedOld(limited, proxy, t)
    ELSE limited

StrategyStats(stats, proxy, outcome) ==
    CASE outcome = "blocked" -> UpdateStatsOld(stats, proxy, FALSE)
      [] outcome = "blockedParsed" ->
            UpdateStatsOld(UpdateStatsOld(stats, proxy, FALSE), proxy, TRUE)
      [] outcome \in {"unparsed", "parsed"} -> UpdateStatsOld(stats, proxy, TRUE)
      [] OTHER -> stats

\* one turn of the loop of the Amazon strategy
StrategyAttempt(outcome, storage) ==
    LET attempts == Append(pipe.attempts, "strategy")
        proxyToUse == NonRateLimitedResult(proxyStatsOld, rateLimitedProxies,
                                           CORS_PROXIES, now)
        stats == NonRateLimitedStats(proxyStatsOld, rateLimitedProxies, CORS_PROXIES, now)
        limited == ExpireAsked(rateLimitedProxies, Proxies, now)
    IN  /\ pipe.pc = "strategy"
        /\ outcome \in StrategyOutcomes
        /\ proxyStatsOld' = StrategyStats(stats, proxyToUse, outcome)
        /\ rateLimitedProxies' = StrategyLimited(limited, proxyToUse, outcome, now)
        /\ IF outcome \in {"parsed", "blockedParsed"}
           THEN CachedAndReturned(ScrapedData(pipe.asin, now), "strategy", attempts, storage)
           ELSE /\ storage = "ok"
                /\ pipe' = IF pipe.i + 1 < Len(CORS_PROXIES)
                           THEN [pipe EXCEPT !.i = @ + 1, !.attempts = attempts]
                           ELSE [pipe EXCEPT !.pc = "standard", !.i = 0,
                                             !.attempts = attempts]
                /\ ret' = [op |-> "scrapeStep", proxy |-> proxyToUse, outcome |-> outcome]
                /\ UNCHANGED productStore
        /\ UNCHANGED <<now, generation, callLimit, fetchCall, compareVars, registryVars, platformStore, cacheGeneration,
                       comparisonStore>>

\* the proxy of turn i (from 0) of the standard rotation
RotationProxy(stats, limited, i, t) ==
    IF i = 0 THEN NonRateLimitedResult(stats, limited, CORS_PROXIES, t)
    ELSE LET availableProxies ==
                 SelectSeq(CORS_PROXIES,
                           LAMBDA p : ~isProxyRateLimitedOld(limited, p, t)
                                      /\ p # CORS_PROXIES[i])
         IN  IF availableProxies # << >> THEN availableProxies[1]
             ELSE CORS_PROXIES[(i % Len(CORS_PROXIES)) + 1]

RotationStats(stats, limited, i, t) ==
    IF i = 0 THEN NonRateLimitedStats(stats, limited, CORS_PROXIES, t) ELSE stats

RotationOutcomes ==
    {"throws", "unextracted", "accessDenied", "rateLimited", "captcha", "parsed"}

\* one turn of the loop of the standard rotation.
\*   "throws"       the fetch fails, the status is bad or the page is too short
\*   "unextracted"  the page is fetched and no product is extracted from it
\*   "accessDenied" 403 or 429 with an access-restriction page
\*   "rateLimited"  403 or 429 with a rate-limit page
\*   "captcha"      a captcha or robot-check page
\*   "parsed"       a product is extracted
RotationAttempt(outcome, storage) ==
    LET attempts == Append(pipe.attempts, "standard")
        proxyToUse == RotationProxy(proxyStatsOld, rateLimitedProxies, pipe.i, now)
        stats == RotationStats(proxyStatsOld, rateLimitedProxies, pipe.i, now)
        limited == ExpireAsked(rateLimitedProxies, Proxies, now)
    IN  /\ pipe.pc = "standard"
        /\ outcome \in RotationOutcomes
        /\ proxyStatsOld' =
              CASE outcome \in {"accessDenied", "rateLimited", "captcha"} ->
                      UpdateStatsOld(stats, proxyToUse, FALSE)
                [] outcome = "parsed" -> UpdateStatsOld(stats, proxyToUse, TRUE)
                [] OTHER -> stats
        /\ rateLimitedProxies' =
              IF outcome \in {"rateLimited", "captcha"}
              THEN MarkRateLimitedOld(limited, proxyToUse, now)
              ELSE limited
        /\ IF outcome = "parsed"
           THEN CachedAndReturned(ScrapedData(pipe.asin, now), "standard", attempts, storage)
           ELSE /\ storage = "ok"
                /\ pipe' = IF pipe.i + 1 < Len(CORS_PROXIES)
                           THEN [pipe EXCEPT !.i = @ + 1, !.attempts = attempts]
                           ELSE [pipe EXCEPT !.pc = "server", !.i = 0,
                                             !.attempts = attempts]
                /\ ret' = [op |-> "scrapeStep", proxy |-> proxyToUse, outcome |-> outcome]
                /\ UNCHANGED productStore
        /\ UNCHANGED <<now, generation, callLimit, fetchCall, compareVars, registryVars, platformStore, cacheGeneration,
                       comparisonStore>>

\* mutation of ServerAttempt: the placeholder is cached like a product
ServerAttempt_CachesMock(outcome, storage) ==
    LET attempts == Append(pipe.attempts, "server")
    IN  /\ pipe.pc = "server"
        /\ outcome \in {"product", "null"}
        /\ IF outcome = "product"
           THEN CachedAndReturned(ScrapedData(pipe.asin, now), "server", attempts, storage)
           ELSE CachedAndReturned(Exhausted(pipe.asin, now), "mock", attempts, storage)
        /\ UNCHANGED <<now, generation, callLimit, fetchCall, compareVars, registryVars, oldRegistryVars, cacheGeneration,
                       comparisonStore>>

\* scrapeProductServer(url), which returns a product or null, and the end of
\* the call: the server's product, cached, or the placeholder, not cached
ServerAttempt(outcome, storage) ==
    LET attempts == Append(pipe.attempts, "server")
    IN  /\ pipe.pc = "server"
        /\ outcome \in {"product", "null"}
        /\ IF outcome = "product"
           THEN CachedAndReturned(ScrapedData(pipe.asin, now), "server", attempts, storage)
           ELSE /\ storage = "ok"
                /\ Returned(Exhausted(pipe.asin, now), "mock", attempts)
                /\ UNCHANGED productStore
        /\ UNCHANGED <<now, generation, callLimit, fetchCall, compareVars, registryVars, oldRegistryVars, cacheGeneration,
                       comparisonStore>>

-----------------------------------------------------------------------------
(* The fetch paths: utils/scrapingStrategies.ts (older registry) and         *)
(* fetchWithAdvancedHandling with scrapeMeesho (advanced registry)           *)

ADVANCED_MAX_RETRIES == 2   \* maxRetries of fetchWithAdvancedHandling

\* what a request through a proxy comes back with: a page of products, a page
\* holding "captcha" (of 1000 characters or more, or shorter), a short page,
\* a 403 or 500 answer, or no answer at all
FetchPayloads == {"product", "captcha", "captchaShort", "short", "http403", "http500",
                  "networkError"}

\* html.includes('captcha')
HasCaptcha(payload) == payload \in {"captcha", "captchaShort"}

\* html.length < 1000
IsShort(payload) == payload \in {"short", "captchaShort"}

\* standardScraping(url, proxy, platform): how it classifies the payload
StandardOutcome(payload) ==
    CASE payload = "networkError" -> "error"
      [] payload = "http403" -> "blocked"
      [] payload = "http500" -> "httpError"
      [] HasCaptcha(payload) -> "challenge"
      [] IsShort(payload) -> "tooShort"
      [] OTHER -> "success"

\* jsRenderingScraping(url, proxy): no length check
JsRenderingOutcome(payload) ==
    CASE payload = "networkError" -> "error"
      [] payload = "http403" -> "blocked"
      [] payload = "http500" -> "httpError"
      [] HasCaptcha(payload) -> "challenge"
      [] OTHER -> "success"

\* markProxyRateLimited(proxy); updateProxyStats(proxy, false) on a block or a
\* challenge, updateProxyStats(proxy, true) on success, nothing otherwise
StrategyRecorded(outcome) == outcome \in {"blocked", "challenge", "success"}

ScrapingStrategy(op, proxy, payload, outcome) ==
    /\ generation = "old"
    /\ CallsMadeOld < callLimit
    /\ rateLimitedProxies' =
          IF outcome \in {"blocked", "challenge"}
          THEN MarkRateLimitedOld(rateLimitedProxies, proxy, now)
          ELSE rateLimitedProxies
    /\ proxyStatsOld' =
          IF StrategyRecorded(outcome)
          THEN UpdateStatsOld(proxyStatsOld, proxy, outcome = "success")
          ELSE proxyStatsOld
    /\ ret' = [op |-> op, proxy |-> proxy, captcha |-> HasCaptcha(payload),
               challenge |-> outcome = "challenge",
               recorded |-> StrategyRecorded(outcome) /\ outcome # "success",
               short |-> IsShort(payload),
               marked |-> outcome \in {"blocked", "challenge"}]
    /\ UNCHANGED <<now, generation, callLimit, fetchCall, compareVars, registryVars, platformStore, cacheVars, pipe>>

StandardScraping(proxy, payload) ==
    ScrapingStrategy("standardScraping", proxy, payload, StandardOutcome(payload))

JsRenderingScraping(proxy, payload) ==
    ScrapingStrategy("jsRenderingScraping", proxy, payload, JsRenderingOutcome(payload))

\* Math.sqrt, in whole milliseconds: the largest r of lo..hi with r * r <= n
RECURSIVE SqrtIn(_, _, _)
SqrtIn(n, lo, hi) ==
    IF lo >= hi THEN lo
    ELSE LET mid == (lo + hi + 1) \div 2
         IN  IF mid * mid <= n THEN SqrtIn(n, mid, hi) ELSE SqrtIn(n, lo, mid - 1)

Sqrt(n) == SqrtIn(n, 0, MAX_TIMEOUT)

RECURSIVE SumSquares(_, _)
SumSquares(data, mean) ==
    IF data = << >> THEN 0
    ELSE (Head(data) - mean) * (Head(data) - mean) + SumSquares(Tail(data), mean)

\* getAdaptiveTimeout(proxy, baseTimeout), in whole milliseconds: the mean of
\* the response times of the proxy plus two standard deviations, between
\* 10 and 40 seconds; proxy is whatever key the caller passes
getAdaptiveTimeout(stats, proxy, baseTimeout) ==
    IF proxy \notin DOMAIN stats THEN baseTimeout
    ELSE IF Len(stats[proxy].responseTimeData) = 0 THEN baseTimeout
    ELSE LET data == stats[proxy].responseTimeData
             avgTime == stats[proxy].averageResponseTime[1]
                            \div stats[proxy].averageResponseTime[2]
             variance == SumSquares(data, avgTime) \div Len(data)
             calculatedTimeout == avgTime + Sqrt(variance) * 2
         IN  Max(MIN_TIMEOUT, Min(MAX_TIMEOUT, calculatedTimeout))

\* the timeout of an attempt of fetchWithAdvancedHandling(url, proxy, options,
\* platform): getAdaptiveTimeout(platform)
AdvancedTimeout(stats, proxy, platform) == getAdaptiveTimeout(stats, platform, BASE_TIMEOUT)

\* the message of the error that one attempt of fetchWithAdvancedHandling
\* throws, as its words; << >> when the attempt returns the page
AttemptError(payload) ==
    CASE payload = "networkError" -> <<"Failed", "to", "fetch">>
      [] payload = "http403" -> <<"HTTP", "error!", "status:", "403">>
      [] payload = "http500" -> <<"HTTP", "error!", "status:", "500">>
      [] IsShort(payload) -> <<"Invalid", "response:", "too", "short">>
      [] payload = "captcha" -> <<"Blocked", "by", "website", "protection">>
      [] OTHER -> << >>

\* fetchWithAdvancedHandling(url, proxy, options, platform, maxRetries): the
\* page of the first attempt that succeeds, or the error of the last attempt,
\* and the number of fetches made
RECURSIVE AdvancedHandling(_, _, _)
AdvancedHandling(responses, retryCount, maxRetries) ==
    IF AttemptError(responses[retryCount + 1]) = << >>
    THEN [ok |-> TRUE, error |-> << >>, last |-> responses[retryCount + 1],
          calls |-> retryCount + 1]
    ELSE IF retryCount + 1 <= maxRetries
         THEN AdvancedHandling(responses, retryCount + 1, maxRetries)
         ELSE [ok |-> FALSE, error |-> AttemptError(responses[retryCount + 1]),
               last |-> responses[retryCount + 1], calls |-> retryCount + 1]

\* ... with the maxRetries that every caller leaves to its default
FetchWithAdvancedHandling(responses, retryCount) ==
    AdvancedHandling(responses, retryCount, ADVANCED_MAX_RETRIES)

\* the waits of a call that made calls fetches: Math.pow(2, retryCount) * 1000
\* after each failure but the last
AdvancedDelays(calls) == [k \in 1..(calls - 1) |-> Pow2(k) * ADVANCED_BACKOFF]

\* a call of fetchWithAdvancedHandling with a maxRetries of its own. The
\* function reads the registry and leaves it as it is
FetchWithAdvancedHandlingCall(proxy, responses, maxRetries) ==
    LET fetchResult == AdvancedHandling(responses, 0, maxRetries)
    IN  /\ generation = "advanced"
        /\ DOMAIN responses = 1..(maxRetries + 1)
        /\ ret' = [op |-> "fetchWithAdvancedHandling", proxy |-> proxy,
                   maxRetries |-> maxRetries, ok |-> fetchResult.ok,
                   calls |-> fetchResult.calls,
                   delays |-> AdvancedDelays(fetchResult.calls),
                   timeout |-> AdvancedTimeout(proxyStats, proxy, "meesho")]
        /\ UNCHANGED <<now, generation, callLimit, fetchCall, compareVars, registryVars,
                       oldRegistryVars, cacheVars, pipe>>

\* the words of the patterns that recordProxyFailure looks for
PatternWords(pattern) ==
    IF pattern = "rate limit" THEN <<"rate", "limit">> ELSE <<pattern>>

\* reason.includes(pattern), case-sensitive, on the words of a message
MessageIncludes(message, pattern) ==
    \E i \in 1..Len(message) :
        /\ i + Len(PatternWords(pattern)) - 1 <= Len(message)
        /\ \A k \in 1..Len(PatternWords(pattern)) :
              message[i + k - 1] = PatternWords(pattern)[k]

\* the patterns that a message holds
PatternsOf(message) == {pattern \in Patterns : MessageIncludes(message, pattern)}

\* scrapeMeesho(searchTerm, proxy): the modern attempt through proxy (or the
\* best available one), then the fallback request through the best available
\* proxy. extracted: product data was found in the page; fallbackOk: the
\* fallback request was answered.
ScrapeMeesho(proxy, responses, extracted, fallbackOk) ==
    LET s0 == IF proxy = NoProxy THEN initializeProxies(proxyStats, CORS_PROXIES)
              ELSE proxyStats
        o0 == IF proxy = NoProxy THEN initializeOrder(proxyOrder, CORS_PROXIES)
              ELSE proxyOrder
        proxyToUse == IF proxy = NoProxy THEN BestAvailableProxy(s0, CORS_PROXIES, now)
                      ELSE proxy
        fetchResult == FetchWithAdvancedHandling(responses, 0)
        succeeded == fetchResult.ok /\ extracted
        failed == ~fetchResult.ok /\ proxy # NoProxy
        reason == PatternsOf(fetchResult.error)
        s1 == IF succeeded THEN SuccessStats(s0, proxyToUse, 800, now)
              ELSE IF failed THEN FailureStats(s0, proxy, "meesho", reason, NoCode, now)
              ELSE s0
        o1 == IF succeeded \/ failed THEN initializeOrder(o0, <<proxyToUse>>) ELSE o0
    IN  /\ generation = "advanced"
        /\ CallsMade < callLimit
        /\ proxyStats' = IF succeeded THEN s1 ELSE initializeProxies(s1, CORS_PROXIES)
        /\ proxyOrder' = IF succeeded THEN o1 ELSE initializeOrder(o1, CORS_PROXIES)
        /\ platformProxyMap' =
              IF succeeded
              THEN SuccessMap(s0, platformProxyMap, proxyToUse, 800, "meesho", now)
              ELSE IF failed
              THEN FailureMap(s0, o0, platformProxyMap, proxy, "meesho", reason, NoCode, now)
              ELSE platformProxyMap
        /\ rateLimitLog' =
              IF succeeded THEN [rateLimitLog EXCEPT ![proxyToUse] = << >>]
              ELSE IF failed
              THEN [rateLimitLog EXCEPT ![proxy] =
                      IF FailureRateLimits("meesho", reason, NoCode)
                      THEN Append(@, [at |-> now,
                                      minutes |-> BackoffMinutes(
                                          FailureCounted(s0, proxy, "meesho", reason, NoCode, now),
                                          proxy, now)])
                      ELSE << >>]
              ELSE rateLimitLog
        /\ ret' = [op |-> "scrapeMeesho", proxy |-> proxyToUse,
                   captcha |-> ~fetchResult.ok /\ HasCaptcha(fetchResult.last),
                   challenge |-> fetchResult.error = AttemptError("captcha"),
                   recorded |-> failed,
                   short |-> IsShort(fetchResult.last),
                   timeout |-> AdvancedTimeout(s0, proxyToUse, "meesho"),
                   marked |-> failed /\ FailureRateLimits("meesho", reason, NoCode),
                   result |-> IF succeeded THEN "product"
                              ELSE IF fallbackOk THEN "basic" ELSE "null"]
        /\ UNCHANGED <<now, generation, callLimit, fetchCall, compareVars, oldRegistryVars, cacheVars, pipe>>

-----------------------------------------------------------------------------
(* fetchWithRetry(url, proxies, options, maxRetries, timeoutMs) of           *)
(* utils/fetchUtils.ts, on the older registry. One action is one turn of its *)
(* loop. The module uses isProxyRateLimited without importing it:            *)
(* fetchCall.resolves tells whether the build resolves the name to the       *)
(* function of proxyUtils; where it does not, the filter throws a            *)
(* ReferenceError on its first candidate, which the loop catches.            *)

FetchOutcomes == {"200", "403", "404", "429", "500", "503", "timeout", "networkError"}

\* response.status === 403 || response.status === 429 || response.status === 503
IsBlockedStatus(outcome) == outcome \in {"403", "429", "503"}

\* the attempt ends the call: the response is returned
ReturnsResponse(outcome) == outcome \in {"200", "404"}

IdleFetch ==
    [pc |-> "idle", proxies |-> << >>, maxRetries |-> 0, resolves |-> TRUE, retry |-> 0,
     tried |-> {}, log |-> << >>, timeouts |-> << >>, delays |-> << >>]

\* proxies.filter(p => !triedProxies.has(p) && !isProxyRateLimited(p))
FetchAvailable(limited, proxies, tried, t) ==
    SelectSeq(proxies, LAMBDA p : p \notin tried /\ ~isProxyRateLimitedOld(limited, p, t))

\* mutation of FetchRetryProxy: every turn takes the first proxy of the list
FetchRetryProxy_First(stats, limited, proxies, tried, random, t) ==
    IF proxies = << >> THEN NoProxy ELSE proxies[1]

\* the proxy of a turn: one of the proxies not tried and not rate limited,
\* picked by Math.random(), else what getNonRateLimitedProxy returns
FetchRetryProxy(stats, limited, proxies, tried, random, t) ==
    LET availableProxies == FetchAvailable(limited, proxies, tried, t)
    IN  IF Len(availableProxies) > 0 THEN availableProxies[random]
        ELSE NonRateLimitedResult(stats, ExpireAsked(limited, Range(proxies) \ tried, t),
                                  proxies, t)

\* ... the statistics that choosing it leaves
FetchRetryStats(stats, limited, proxies, tried, t) ==
    IF Len(FetchAvailable(limited, proxies, tried, t)) > 0 THEN stats
    ELSE NonRateLimitedStats(stats, ExpireAsked(limited, Range(proxies) \ tried, t),
                             proxies, t)

\* ... and the rate limits
FetchRetryLimited(limited, proxies, tried, t) ==
    IF Len(FetchAvailable(limited, proxies, tried, t)) > 0
    THEN ExpireAsked(limited, Range(proxies) \ tried, t)
    ELSE ExpireAsked(limited, Range(proxies), t)

\* Math.min(1000 * Math.pow(2, retry - 1), 8000)
BackoffMs(retry) == Min(BACKOFF_BASE * Pow2(retry - 1), BACKOFF_CAP)

\* timeoutMs * (1 + (retry * 0.5))
AdjustedTimeout(timeoutMs, retry) == (timeoutMs * (2 + retry)) \div 2

\* the statistics after the response of an attempt
ResponseStats(stats, proxy, outcome) ==
    CASE IsBlockedStatus(outcome) -> UpdateStatsOld(stats, proxy, FALSE)
      [] outcome = "500" -> UpdateStatsOld(stats, proxy, FALSE)
      [] outcome = "404" ->
            UpdateStatsOld(UpdateStatsOld(stats, proxy, FALSE), proxy, FALSE)
      [] outcome = "200" -> UpdateStatsOld(stats, proxy, TRUE)
      [] OTHER -> stats

FetchWithRetryStart(proxies, maxRetries, resolves) ==
    /\ generation = "old"
    /\ fetchCall.pc = "idle"
    /\ maxRetries > 0
    /\ fetchCall' = [IdleFetch EXCEPT !.pc = "running", !.proxies = proxies,
                                      !.maxRetries = maxRetries, !.resolves = resolves]
    /\ ret' = [op |-> "fetchWithRetry"]
    /\ UNCHANGED <<now, generation, callLimit, compareVars, registryVars, oldRegistryVars,
                   cacheVars, pipe>>

\* one turn of the loop. random: what Math.random() picks among the proxies
\* not tried; outcome: the status of the response, or how the fetch fails
FetchWithRetryTurn(random, outcome) ==
    LET c == fetchCall
        unresolved == ~c.resolves /\ c.proxies # << >>
        proxy == FetchRetryProxy(proxyStatsOld, rateLimitedProxies, c.proxies, c.tried,
                                 random, now)
        fetched == ~unresolved /\ proxy # NoProxy
        stats == FetchRetryStats(proxyStatsOld, rateLimitedProxies, c.proxies, c.tried, now)
        limited == FetchRetryLimited(rateLimitedProxies, c.proxies, c.tried, now)
    IN  /\ c.pc = "running"
        /\ outcome \in FetchOutcomes
        /\ random \in 1..Max(1, Len(FetchAvailable(rateLimitedProxies, c.proxies,
                                                    c.tried, now)))
        /\ fetched \/ (outcome = "networkError" /\ random = 1)
        /\ proxyStatsOld' = IF unresolved THEN proxyStatsOld
                            ELSE IF fetched THEN ResponseStats(stats, proxy, outcome)
                            ELSE stats
        /\ rateLimitedProxies' =
              IF unresolved THEN rateLimitedProxies
              ELSE IF fetched /\ IsBlockedStatus(outcome)
              THEN MarkRateLimitedOld(limited, proxy, now)
              ELSE limited
        /\ fetchCall' =
              IF fetched
              THEN [c EXCEPT
                      !.pc = IF ReturnsResponse(outcome) THEN "returned"
                             ELSE IF c.retry + 1 < c.maxRetries THEN "running"
                             ELSE "thrown",
                      !.retry = @ + 1,
                      !.tried = @ \cup {proxy},
                      !.log = Append(@, [proxy |-> proxy, outcome |-> outcome]),
                      !.timeouts = Append(@, AdjustedTimeout(FETCH_TIMEOUT, c.retry)),
                      !.delays = IF c.retry > 0 THEN Append(@, BackoffMs(c.retry)) ELSE @]
              ELSE [c EXCEPT
                      !.pc = IF c.retry + 1 < c.maxRetries THEN "running" ELSE "thrown",
                      !.retry = @ + 1]
        /\ ret' = [op |-> "fetchWithRetryTurn", fetched |-> fetched]
        /\ UNCHANGED <<now, generation, callLimit, compareVars, registryVars, platformStore,
                       cacheVars, pipe>>

-----------------------------------------------------------------------------
(* searchProductOnPlatforms(productName, brand, model): the cache, the       *)
(* hosted API, one branch per platform run in parallel, the server, and the  *)
(* estimated comparison. The call uses the older registry and the guarded    *)
(* cache. A branch makes up to three attempts; each attempt races its        *)
(* scrapingPromise (the request of the scraping strategy, then the request   *)
(* of the platform's scraper) against a timer. branch[p].inflight holds the  *)
(* requests of p that were sent and have not come back.                      *)

SEARCH_ATTEMPTS == 3        \* attempt < 3
MaxSearches == 2            \* calls of searchProductOnPlatforms in one run

\* platformScrapers, abridged (four in the source)
PlatformScrapers == <<"Flipkart", "Meesho">>

Item(marketplace, price) ==
    [marketplace |-> marketplace, price |-> price, isLowestPrice |-> FALSE]

NoItem == Item("null", 0)   \* null in the place of a PriceComparisonItem

\* the array of comparison items, as the cache holds it
ComparisonData(items, t) ==
    [name |-> "comparison", lastUpdated |-> <<"Date", t>>, items |-> items]

\* Math.min(...results.map(item => item.price)), results not empty
RECURSIVE MinPrice(_)
MinPrice(results) ==
    IF Len(results) = 1 THEN results[1].price
    ELSE Min(results[1].price, MinPrice(Tail(results)))

\* results.map(item => ({...item, isLowestPrice: item.price === lowestPrice}))
MarkLowest(results) ==
    [i \in 1..Len(results) |->
        [results[i] EXCEPT !.isLowestPrice = (results[i].price = MinPrice(results))]]

\* sortedResults.map((item, index) => ({...item, isLowestPrice: index === 0}))
MarkFirst(sortedResults) ==
    [i \in 1..Len(sortedResults) |-> [sortedResults[i] EXCEPT !.isLowestPrice = (i = 1)]]

\* validResults.sort((a, b) => a.price - b.price): stable, lowest first
InsertByPrice(sorted, item) ==
    LET k == Cardinality({i \in 1..Len(sorted) : sorted[i].price <= item.price})
    IN  SubSeq(sorted, 1, k) \o <<item>> \o SubSeq(sorted, k + 1, Len(sorted))

RECURSIVE SortByPrice(_)
SortByPrice(results) ==
    IF results = << >> THEN << >>
    ELSE InsertByPrice(SortByPrice(SubSeq(results, 1, Len(results) - 1)),
                       results[Len(results)])

\* the items that a list of prices stands for, one shop per price
ItemsOf(prices, shops) == [i \in 1..Len(prices) |-> Item(shops[i], prices[i])]

IdleSearch == [pc |-> "idle", term |-> "", result |-> << >>, path |-> "none", count |-> 0]

FreshBranch ==
    [pc |-> "start", attempt |-> 0, value |-> NoItem, inflight |-> {}, delays |-> << >>]

FreshBranches == [p \in Range(PlatformScrapers) |-> FreshBranch]

\* return results, by the given path
SearchReturned(results, path) ==
    /\ search' = [search EXCEPT !.pc = "done", !.result = results, !.path = path]
    /\ ret' = [op |-> "searchProductOnPlatforms", path |-> path]

\* cacheComparison(searchTerm, results) within the search
ComparisonCached(results, storage) ==
    LET cache == SetEntry(comparisonStore, ComparisonKey(cacheGeneration, search.term),
                          ComparisonData(results, now), now)
    IN  /\ WritePossible(cache, storage)
        /\ comparisonStore' = SaveResult(cacheGeneration, comparisonStore, cache, storage)

\* the call, up to the request of the hosted API: a cached comparison is returned
SearchStart(searchTerm) ==
    LET key == ComparisonKey(cacheGeneration, searchTerm)
        cachedResults == GetResult(cacheGeneration, comparisonStore, key, now,
                                   COMPARISON_CACHE_TTL)
    IN  /\ generation = "old"
        /\ cacheGeneration = "guarded"
        /\ search.pc \in {"idle", "done"}
        /\ search.count < MaxSearches
        /\ \A p \in Range(PlatformScrapers) : branch[p].inflight = {}
        /\ branch' = FreshBranches
        /\ IF cachedResults # NoValue
           THEN /\ search' = [pc |-> "done", term |-> searchTerm,
                              result |-> cachedResults.items, path |-> "cache",
                              count |-> search.count + 1]
                /\ ret' = [op |-> "searchProductOnPlatforms", path |-> "cache"]
           ELSE /\ search' = [pc |-> "oxylabs", term |-> searchTerm, result |-> << >>,
                              path |-> "none", count |-> search.count + 1]
                /\ ret' = [op |-> "searchStep"]
        /\ UNCHANGED <<now, generation, callLimit, fetchCall, registryVars, oldRegistryVars, cacheVars, pipe>>

\* OxylabsService.searchGoogleShopping(searchTerm): prices is what the API
\* found, in its order; an empty list stands for no result and for an error
SearchOxylabs(prices, storage) ==
    LET results == ItemsOf(prices, <<"Shop A", "Shop B">>)
    IN  /\ search.pc = "oxylabs"
        /\ IF Len(results) > 0
           THEN /\ ComparisonCached(MarkLowest(results), storage)
                /\ SearchReturned(MarkLowest(results), "oxylabs")
           ELSE /\ storage = "ok"
                /\ search' = [search EXCEPT !.pc = "client"]
                /\ ret' = [op |-> "searchStep"]
                /\ UNCHANGED comparisonStore
        /\ UNCHANGED <<now, generation, callLimit, fetchCall, branch, registryVars, oldRegistryVars,
                       cacheGeneration, productStore, pipe>>

\* localStorage.getItem(key) of getProxyForPlatform
StoredProxy(store, platform, storageThrows) ==
    IF ~storageThrows /\ PlatformKey(platform) \in DOMAIN store
    THEN store[PlatformKey(platform)] ELSE NoProxy

\* getProxyForPlatform(proxies, platform): what it returns and the statistics it leaves
ProxyForPlatformResult(stats, store, proxies, platform, storageThrows, t) ==
    IF /\ StoredProxy(store, platform, storageThrows) # NoProxy
       /\ StoredProxy(store, platform, storageThrows) \in Range(proxies)
    THEN StoredProxy(store, platform, storageThrows)
    ELSE GetBestProxyResult(stats, proxies, t)

ProxyForPlatformStats(stats, store, proxies, platform, storageThrows, t) ==
    IF /\ StoredProxy(store, platform, storageThrows) # NoProxy
       /\ StoredProxy(store, platform, storageThrows) \in Range(proxies)
    THEN stats
    ELSE GetBestProxyStats(stats, proxies, t)

\* CORS_PROXIES.filter(p => p !== previousProxy && !isProxyRateLimited(p))
Alternatives(limited, previousProxy, t) ==
    SelectSeq(CORS_PROXIES,
              LAMBDA p : p # previousProxy /\ ~isProxyRateLimitedOld(limited, p, t))

\* the proxy of an attempt. random: what Math.random() picks when every
\* alternative is rate limited
AttemptProxy(stats, limited, store, platform, attempt, storageThrows, random, t) ==
    LET preferredProxy ==
            ProxyForPlatformResult(stats, store, CORS_PROXIES, platform, storageThrows, t)
        stats1 == ProxyForPlatformStats(stats, store, CORS_PROXIES, platform, storageThrows, t)
        limited1 == ExpireAsked(limited, {preferredProxy}, t)
        alternatives == Alternatives(limited, preferredProxy, t)
    IN  IF attempt = 0
        THEN IF ~isProxyRateLimitedOld(limited, preferredProxy, t) THEN preferredProxy
             ELSE NonRateLimitedResult(stats1, limited1, CORS_PROXIES, t)
        ELSE IF Len(alternatives) > 0
             THEN alternatives[((attempt * 2) % Len(alternatives)) + 1]
             ELSE random

\* ... the statistics that choosing it leaves
AttemptStats(stats, limited, store, platform, attempt, storageThrows, t) ==
    LET preferredProxy ==
            ProxyForPlatformResult(stats, store, CORS_PROXIES, platform, storageThrows, t)
        stats1 == ProxyForPlatformStats(stats, store, CORS_PROXIES, platform, storageThrows, t)
        limited1 == ExpireAsked(limited, {preferredProxy}, t)
    IN  IF attempt = 0 /\ isProxyRateLimitedOld(limited, preferredProxy, t)
        THEN NonRateLimitedStats(stats1, limited1, CORS_PROXIES, t)
        ELSE stats1

\* ... and the rate limits: isProxyRateLimited deletes the entries that have run out
AttemptLimited(stats, limited, store, platform, attempt, storageThrows, t) ==
    LET preferredProxy ==
            ProxyForPlatformResult(stats, store, CORS_PROXIES, platform, storageThrows, t)
    IN  IF attempt = 0
        THEN IF isProxyRateLimitedOld(limited, preferredProxy, t)
             THEN ExpireAsked(limited, Range(CORS_PROXIES), t)
             ELSE ExpireAsked(limited, {preferredProxy}, t)
        ELSE ExpireAsked(limited, Range(CORS_PROXIES) \ {preferredProxy}, t)

\* attempt * 1500, the wait before an attempt after the first
AttemptDelay(attempt) == attempt * ATTEMPT_DELAY

\* an attempt of the branch of a platform starts: it chooses its proxy and
\* sends the request of the scraping strategy
AttemptStarts(platform, storageThrows, random) ==
    LET b == branch[platform]
        proxy == AttemptProxy(proxyStatsOld, rateLimitedProxies, platformStore, platform,
                              b.attempt, storageThrows, random, now)
    IN  /\ search.pc = "client"
        /\ b.pc = "start"
        /\ proxyStatsOld' = AttemptStats(proxyStatsOld, rateLimitedProxies, platformStore,
                                         platform, b.attempt, storageThrows, now)
        /\ rateLimitedProxies' = AttemptLimited(proxyStatsOld, rateLimitedProxies,
                                                platformStore, platform, b.attempt,
                                                storageThrows, now)
        /\ branch' = [branch EXCEPT ![platform] =
              [b EXCEPT !.pc = "racing",
                        !.delays = IF b.attempt > 0
                                   THEN Append(@, AttemptDelay(b.attempt)) ELSE @,
                        !.inflight = @ \cup {[attempt |-> b.attempt, proxy |-> proxy,
                                              phase |-> "strategy"]}]]
        /\ ret' = [op |-> "attemptStarts", platform |-> platform, abandoned |-> FALSE]
        /\ UNCHANGED <<now, generation, callLimit, fetchCall, search, registryVars, platformStore,
                       cacheVars, pipe>>

\* the branch after its current attempt has failed: the next attempt, or null
\* after the last one
AttemptFailed(b) ==
    IF b.attempt + 1 < SEARCH_ATTEMPTS
    THEN [b EXCEPT !.pc = "start", !.attempt = @ + 1]
    ELSE [b EXCEPT !.pc = "done", !.attempt = @ + 1, !.value = NoItem]

\* the request f belongs to the attempt that the branch is waiting for
IsCurrent(b, f) == b.pc = "racing" /\ f.attempt = b.attempt

\* getScrapingStrategy(platform.name.toLowerCase()) applied to a payload
StrategyOutcome(platform, payload) ==
    IF platform = "Meesho" THEN JsRenderingOutcome(payload) ELSE StandardOutcome(payload)

\* the request of the scraping strategy comes back. On success the scraper of
\* the platform sends its own request; otherwise the scrapingPromise rejects.
StrategySettles(platform, f, payload) ==
    LET b == branch[platform]
        outcome == StrategyOutcome(platform, payload)
        rest == b.inflight \ {f}
    IN  /\ f \in b.inflight
        /\ f.phase = "strategy"
        /\ rateLimitedProxies' =
              IF outcome \in {"blocked", "challenge"}
              THEN MarkRateLimitedOld(rateLimitedProxies, f.proxy, now)
              ELSE rateLimitedProxies
        /\ proxyStatsOld' =
              IF StrategyRecorded(outcome)
              THEN UpdateStatsOld(proxyStatsOld, f.proxy, outcome = "success")
              ELSE proxyStatsOld
        /\ branch' = [branch EXCEPT ![platform] =
              IF outcome = "success"
              THEN [b EXCEPT !.inflight = rest \cup {[f EXCEPT !.phase = "parse"]}]
              ELSE IF IsCurrent(b, f) THEN [AttemptFailed(b) EXCEPT !.inflight = rest]
              ELSE [b EXCEPT !.inflight = rest]]
        /\ ret' = [op |-> "strategySettles", platform |-> platform,
                   abandoned |-> ~IsCurrent(b, f)]
        /\ UNCHANGED <<now, generation, callLimit, fetchCall, search, registryVars, platformStore,
                       cacheVars, pipe>>

\* what the scraper of a platform (scrapeFlipkart, ...) makes of its request
ParseOutcomes == {"item", "blocked", "error", "noResults"}

\* the statistics after the scraper of the platform, and after
\* saveProxyForPlatform(proxy, platform.name, true) when it returned an item
ParseStats(stats, proxy, outcome) ==
    CASE outcome = "item" -> UpdateStatsOld(UpdateStatsOld(stats, proxy, TRUE), proxy, TRUE)
      [] outcome = "blocked" -> UpdateStatsOld(UpdateStatsOld(stats, proxy, FALSE), proxy, FALSE)
      [] outcome = "error" -> UpdateStatsOld(stats, proxy, FALSE)
      [] OTHER -> stats

\* the request of the scraper of the platform comes back and the
\* scrapingPromise settles: with the item, or with null
ParseSettles(platform, f, outcome, price, storageThrows) ==
    LET b == branch[platform]
        rest == b.inflight \ {f}
    IN  /\ f \in b.inflight
        /\ f.phase = "parse"
        /\ outcome # "item" => (price = 0 /\ ~storageThrows)
        /\ rateLimitedProxies' =
              IF outcome = "blocked"
              THEN MarkRateLimitedOld(rateLimitedProxies, f.proxy, now)
              ELSE rateLimitedProxies
        /\ proxyStatsOld' = ParseStats(proxyStatsOld, f.proxy, outcome)
        /\ platformStore' =
              IF outcome = "item" /\ ~storageThrows
              THEN [k \in DOMAIN platformStore \cup {PlatformKey(platform)} |->
                      IF k = PlatformKey(platform) THEN f.proxy ELSE platformStore[k]]
              ELSE platformStore
        /\ branch' = [branch EXCEPT ![platform] =
              IF ~IsCurrent(b, f) THEN [b EXCEPT !.inflight = rest]
              ELSE IF outcome = "item"
              THEN [b EXCEPT !.pc = "done", !.value = Item(platform, price),
                             !.inflight = rest]
              ELSE [AttemptFailed(b) EXCEPT !.inflight = rest]]
        /\ ret' = [op |-> "parseSettles", platform |-> platform,
                   abandoned |-> ~IsCurrent(b, f)]
        /\ UNCHANGED <<now, generation, callLimit, fetchCall, search, registryVars, cacheVars, pipe>>

\* the seconds after which a scraping strategy aborts its own request
StrategyAbort(platform) == IF platform = "Meesho" THEN 40 ELSE 20

\* timeoutDuration, in seconds
TimeoutDuration(attempt) == 20 + attempt * 5

\* the timer of the attempt can go off while the request f is out: the request
\* of a strategy when the strategy waits longer than the timer, the request of
\* the scraper of the platform always (it is sent after that of the strategy
\* and has 25 seconds of its own)
CanOutlast(platform, f) ==
    \/ f.phase = "parse"
    \/ StrategyAbort(platform) > TimeoutDuration(f.attempt)

\* the timer of the current attempt goes off before its scrapingPromise has
\* settled: the branch goes on, the request stays in flight
AttemptTimesOut(platform) ==
    LET b == branch[platform]
    IN  /\ b.pc = "racing"
        /\ \E f \in b.inflight : f.attempt = b.attempt /\ CanOutlast(platform, f)
        /\ branch' = [branch EXCEPT ![platform] = AttemptFailed(b)]
        /\ ret' = [op |-> "attemptTimesOut", platform |-> platform, abandoned |-> FALSE]
        /\ UNCHANGED <<now, generation, callLimit, fetchCall, search, registryVars, oldRegistryVars,
                       cacheVars, pipe>>

\* the items of the branches that returned one, in the order of platformScrapers
RECURSIVE Fulfilled(_, _)
Fulfilled(branches, scrapers) ==
    IF scrapers = << >> THEN << >>
    ELSE (IF branches[Head(scrapers)].value # NoItem
          THEN <<branches[Head(scrapers)].value>> ELSE << >>)
         \o Fulfilled(branches, Tail(scrapers))

\* Promise.allSettled(platformPromises) and what follows. amazonPrice: the
\* price on the page when it is a product page of Amazon, 0 otherwise
SearchCollect(amazonPrice, storage) ==
    LET validResults ==
            (IF amazonPrice > 0 THEN <<Item("Amazon", amazonPrice)>> ELSE << >>)
            \o Fulfilled(branch, PlatformScrapers)
    IN  /\ search.pc = "client"
        /\ \A p \in Range(PlatformScrapers) : branch[p].pc = "done"
        /\ IF Len(validResults) > 0
           THEN /\ ComparisonCached(MarkFirst(SortByPrice(validResults)), storage)
                /\ SearchReturned(MarkFirst(SortByPrice(validResults)), "client")
           ELSE /\ storage = "ok"
                /\ search' = [search EXCEPT !.pc = "server"]
                /\ ret' = [op |-> "searchStep"]
                /\ UNCHANGED comparisonStore
        /\ UNCHANGED <<now, generation, callLimit, fetchCall, branch, registryVars, oldRegistryVars,
                       cacheGeneration, productStore, pipe>>

\* searchProductAcrossPlatformsServer(searchTerm): serverResults is what the
\* server sent, flags included; an empty list also stands for an error
SearchServer(serverResults, storage) ==
    /\ search.pc = "server"
    /\ IF Len(serverResults) > 0
       THEN /\ ComparisonCached(serverResults, storage)
            /\ SearchReturned(serverResults, "server")
       ELSE /\ storage = "ok"
            /\ search' = [search EXCEPT !.pc = "estimate"]
            /\ ret' = [op |-> "searchStep"]
            /\ UNCHANGED comparisonStore
    /\ UNCHANGED <<now, generation, callLimit, fetchCall, branch, registryVars, oldRegistryVars,
                   cacheGeneration, productStore, pipe>>

\* the comparison that the server returns in development
ServerMock(basePrice) ==
    <<[Item("Amazon (Server)", basePrice) EXCEPT !.isLowestPrice = FALSE],
      [Item("Walmart (Server)", (basePrice * 9) \div 10) EXCEPT !.isLowestPrice = TRUE],
      [Item("Target (Server)", (basePrice * 105) \div 100) EXCEPT !.isLowestPrice = FALSE]>>

\* the estimated comparison: prices drawn at random around a base price,
\* sorted and marked, and not cached
SearchEstimate(prices) ==
    /\ search.pc = "estimate"
    /\ SearchReturned(MarkFirst(SortByPrice(ItemsOf(prices, <<"Amazon", "Flipkart">>))),
                      "estimated")
    /\ UNCHANGED <<now, generation, callLimit, fetchCall, branch, registryVars, oldRegistryVars,
                   cacheVars, pipe>>

-----------------------------------------------------------------------------
(* The clock: Date.now() moves on to a later instant *)

Tick(t) ==
    /\ t > now
    /\ now' = t
    /\ ret' = [op |-> "tick"]
    /\ UNCHANGED <<generation, callLimit, fetchCall, compareVars, registryVars, oldRegistryVars, cacheVars, pipe>>

-----------------------------------------------------------------------------
(* Initial state: nothing recorded, nothing stored *)

Idle == [op |-> "init"]

Init ==
    /\ now = T0
    /\ generation \in {"old", "advanced"}
    /\ callLimit \in {MaxCalls, MaxCalls + 1, SuspensionCalls}
    /\ proxyStats = << >>
    /\ proxyOrder = << >>
    /\ platformProxyMap = << >>
    /\ rateLimitLog = [p \in Proxies |-> << >>]
    /\ proxyStatsOld = << >>
    /\ rateLimitedProxies = << >>
    /\ platformStore = << >>
    /\ cacheGeneration \in {"basic", "guarded"}
    /\ productStore = << >>
    /\ comparisonStore = << >>
    /\ pipe = IdlePipe
    /\ search = IdleSearch
    /\ branch = FreshBranches
    /\ fetchCall = IdleFetch
    /\ ret = Idle

-----------------------------------------------------------------------------
(* Selection: both generations of the registry, with proxies that succeed    *)
(* and proxies that get rate limited                                        *)

SelectInstants == {T0 + 1, T0 + 2, T0 + 3}
SelectProxies == {"p1", "p2"}
CandidateLists == {<<"p1">>, <<"p1", "p2">>, <<"p2", "p1">>}

SelectNext ==
    \/ \E t \in SelectInstants : Tick(t)
    \/ \E p \in SelectProxies : RecordProxySuccess(p, 800, "amazon")
    \/ \E p \in SelectProxies : RecordProxyFailure(p, "amazon", {"rate limit"}, 429)
    \/ \E ps \in CandidateLists : GetBestAvailableProxy(ps)
    \/ \E ps \in CandidateLists : GetBestProxyForPlatform(ps, "amazon")
    \/ \E p \in SelectProxies, ok \in BOOLEAN : SaveProxyForPlatform(p, "Amazon", ok, FALSE)
    \/ \E p \in SelectProxies : MarkProxyRateLimitedOld(p)
    \/ \E ps \in CandidateLists : GetBestProxy(ps)
    \/ \E ps \in CandidateLists : GetProxyForPlatform(ps, "amazon", FALSE)
    \/ \E ps \in CandidateLists : GetNonRateLimitedProxy(ps)

InitSelect == Init /\ cacheGeneration = "guarded" /\ callLimit = MaxCalls

SpecSelect == InitSelect /\ [][SelectNext]_vars

-----------------------------------------------------------------------------
(* Backoff: one proxy of the advanced registry under failures of every kind *)

InitAdvanced ==
    Init /\ generation = "advanced" /\ cacheGeneration = "guarded" /\ callLimit = MaxCalls

BackoffInstants == {T0 + 1, T0 + 30}
ReasonArgs == {NoReason, {}, {"rate limit"}, {"captcha"}, {"blocked"}, {"forbidden"}}
StatusCodes == {NoCode, 403, 429, 500}

BackoffNext ==
    \/ \E t \in BackoffInstants : Tick(t)
    \/ \E pl \in {"amazon", NoPlatform}, r \in ReasonArgs, c \in StatusCodes :
          RecordProxyFailure("p1", pl, r, c)
    \/ RecordProxySuccess("p1", 800, "amazon")
    \/ MarkProxyRateLimited("p1", "amazon")

SpecBackoff == InitAdvanced /\ [][BackoffNext]_vars

-----------------------------------------------------------------------------
(* The cache: both generations, three products and two spellings of one      *)
(* search term, with entries that expire and writes that the storage rejects *)

InitCache == Init /\ generation = "old" /\ callLimit = MaxCalls

CacheInstants == {T0 + 31, T0 + 61}
ProductKeys == {"B01", "B02", "b01"}
SearchTerms == {"milk", " Milk "}

CacheNext ==
    \/ \E t \in CacheInstants : Tick(t)
    \/ \E k \in ProductKeys, o \in StorageOutcomes : CacheProduct(k, ScrapedData(k, now), o)
    \/ \E k \in ProductKeys : GetCachedProduct(k)
    \/ \E s \in SearchTerms, o \in StorageOutcomes :
          CacheComparison(s, ScrapedData(NormalizeTerm(s), now), o)
    \/ \E s \in SearchTerms : GetCachedComparison(s)
    \/ \E po, co \in StorageOutcomes : ClearExpiredCache(po, co)

SpecCache == InitCache /\ [][CacheNext]_vars

-----------------------------------------------------------------------------
(* One call of scrapeAmazonProduct, with every outcome of every request,     *)
(* while other callers cache the same product                                *)

InitPipeline ==
    Init /\ generation = "old" /\ cacheGeneration = "guarded" /\ callLimit = MaxCalls

PipelineInstants == {T0 + 3, T0 + 31}
Urls == {"https://www.amazon.in/dp/B01", "https://www.amazon.in/gp/help",
         "https://www.flipkart.com/p/B01"}

PipelineNext ==
    \/ \E t \in PipelineInstants : Tick(t)
    \/ \E o \in StorageOutcomes : CacheProduct("B01", ScrapedData("B01", now), o)
    \/ \E url \in Urls : ScrapeStart(url)
    \/ \E o \in OxylabsOutcomes, s \in StorageOutcomes : OxylabsFetch(o, s)
    \/ \E o \in StrategyOutcomes, s \in StorageOutcomes : StrategyAttempt(o, s)
    \/ \E o \in RotationOutcomes, s \in StorageOutcomes : RotationAttempt(o, s)
    \/ \E o \in {"product", "null"}, s \in StorageOutcomes : ServerAttempt(o, s)

SpecPipeline == InitPipeline /\ [][PipelineNext]_vars

-----------------------------------------------------------------------------
(* Lapse: suspensions of both registries while the clock runs on. Failures   *)
(* stop at LapseEnd, an instant past every suspension they can have set;     *)
(* the clock is weakly fair: Date.now() does not stand still.                *)

LapseInstants == {T0 + 1, T0 + 3}
LapseEnd == T0 + 2 * MAX_BACKOFF
LapseProxies == {"p1", "p2"}
LapseLists == {<<"p1", "p2">>, <<"p2", "p1">>}

LapseTick == \E t \in LapseInstants \cup {LapseEnd} : Tick(t)

LapseNext ==
    \/ LapseTick
    \/ now < LapseEnd /\ \E p \in LapseProxies : RecordProxyFailure(p, "amazon", {"blocked"}, NoCode)
    \/ now < LapseEnd /\ \E p \in LapseProxies : MarkProxyRateLimited(p, "amazon")
    \/ RecordProxySuccess("p1", 800, "amazon")
    \/ \E ps \in LapseLists : GetBestAvailableProxy(ps)
    \/ now < LapseEnd /\ \E p \in LapseProxies : MarkProxyRateLimitedOld(p)
    \/ \E ps \in LapseLists : GetNonRateLimitedProxy(ps)

SpecLapse == InitSelect /\ [][LapseNext]_vars /\ WF_vars(LapseTick)

-----------------------------------------------------------------------------
(* Fetching: pages of every kind through the strategies of the older         *)
(* registry and through scrapeMeesho of the advanced one                     *)

FetchInstants == {T0 + 1, T0 + 3}
FetchProxies == {"p1", "p2"}
AdvancedResponses == {"product", "captcha", "captchaShort", "http403"}

FetchNext ==
    \/ \E t \in FetchInstants : Tick(t)
    \/ \E p \in FetchProxies, payload \in FetchPayloads : StandardScraping(p, payload)
    \/ \E p \in FetchProxies, payload \in FetchPayloads : JsRenderingScraping(p, payload)
    \/ \E ps \in LapseLists : GetNonRateLimitedProxy(ps)
    \/ \E p \in {"p1", NoProxy},
          responses \in [1..(ADVANCED_MAX_RETRIES + 1) -> AdvancedResponses],
          extracted \in BOOLEAN, fallbackOk \in BOOLEAN :
          ScrapeMeesho(p, responses, extracted, fallbackOk)

SpecFetch == InitSelect /\ [][FetchNext]_vars

-----------------------------------------------------------------------------
(* Candidates: every operation of both registries on the empty list, on a   *)
(* known proxy and on proxies never seen before                              *)

AnyLists == {<< >>, <<"p1">>, <<"p3", "p1">>}
AnyProxies == {"p1", "p3"}

AnyNext ==
    \/ Tick(T0 + 1)
    \/ \E ps \in AnyLists : GetBestProxy(ps)
    \/ \E ps \in AnyLists, storageThrows \in BOOLEAN :
          GetProxyForPlatform(ps, "amazon", storageThrows)
    \/ \E ps \in AnyLists : GetNonRateLimitedProxy(ps)
    \/ \E p \in AnyProxies, ok \in BOOLEAN : UpdateProxyStats(p, ok)
    \/ \E p \in AnyProxies, ok \in BOOLEAN, storageThrows \in BOOLEAN :
          SaveProxyForPlatform(p, "amazon", ok, storageThrows)
    \/ \E p \in AnyProxies : MarkProxyRateLimitedOld(p)
    \/ \E ps \in AnyLists : GetBestAvailableProxy(ps)
    \/ \E ps \in AnyLists : GetBestProxyForPlatform(ps, "amazon")
    \/ \E p \in AnyProxies : RecordProxySuccess(p, 800, "amazon")
    \/ \E p \in AnyProxies, pl \in {"amazon", NoPlatform}, r \in {NoReason, {"blocked"}} :
          RecordProxyFailure(p, pl, r, NoCode)
    \/ \E p \in AnyProxies, pl \in {"amazon", NoPlatform} : MarkProxyRateLimited(p, pl)

SpecAny == InitSelect /\ [][AnyNext]_vars

-----------------------------------------------------------------------------
(* Preference: two proxies of the advanced registry serving one platform,    *)
(* with one record call more, so that a proxy can fail, succeed and then see *)
(* the other proxy succeed                                                   *)

InitPrefer ==
    Init /\ generation = "advanced" /\ cacheGeneration = "guarded" /\ callLimit = MaxCalls + 1

PreferNext ==
    \/ \E t \in LapseInstants : Tick(t)
    \/ \E p \in LapseProxies : RecordProxySuccess(p, 800, "amazon")
    \/ \E p \in LapseProxies, r \in {{}, {"blocked"}} : RecordProxyFailure(p, "amazon", r, NoCode)
    \/ \E ps \in LapseLists : GetBestProxyForPlatform(ps, "amazon")

SpecPrefer == InitPrefer /\ [][PreferNext]_vars

\* The comparison search: a call for one product on two platforms, and a
\* second call when the first left a cached comparison. The timers of Meesho,
\* whose strategy waits 40 seconds, can go off.
ComparePrices == {3, 5}
OxylabsLists == {<< >>, <<5, 3>>, <<3, 3>>}
ServerLists == {<< >>, ServerMock(20)}
EstimateLists == {<<5, 3>>, <<3, 3>>}
ComparePayloads == {"product", "networkError"}
CompareOutcomes == {"item", "noResults"}

InitCompare == Init /\ generation = "old" /\ cacheGeneration = "guarded" /\ callLimit = MaxCalls

CompareNext ==
    \/ search.path # "estimated" /\ SearchStart("MILK")
    \/ \E prices \in OxylabsLists : SearchOxylabs(prices, "ok")
    \/ \E p \in Range(PlatformScrapers) : AttemptStarts(p, FALSE, "p1")
    \/ \E f \in branch["Flipkart"].inflight : StrategySettles("Flipkart", f, "product")
    \/ \E f \in branch["Flipkart"].inflight :
          \E outcome \in CompareOutcomes : \E price \in ComparePrices \cup {0} :
             ParseSettles("Flipkart", f, outcome, price, FALSE)
    \/ \E f \in branch["Meesho"].inflight :
          \E payload \in ComparePayloads : StrategySettles("Meesho", f, payload)
    \/ \E f \in branch["Meesho"].inflight :
          \E outcome \in CompareOutcomes : \E price \in ComparePrices \cup {0} :
             ParseSettles("Meesho", f, outcome, price, FALSE)
    \/ AttemptTimesOut("Meesho")
    \/ \E amazonPrice \in {0, 4} : SearchCollect(amazonPrice, "ok")
    \/ \E serverResults \in ServerLists : SearchServer(serverResults, "ok")
    \/ \E prices \in EstimateLists : SearchEstimate(prices)

SpecCompare == InitCompare /\ [][CompareNext]_vars

\* One call of the comparison search in which Flipkart answers at once and
\* the attempts of Meesho run into their timers or into a challenge
BranchPayloads == {"product", "captcha", "http403"}
BranchOutcomes == {"item", "blocked"}

BranchNext ==
    \/ Tick(T0 + 1)
    \/ search.pc = "idle" /\ SearchStart("milk")
    \/ SearchOxylabs(<< >>, "ok")
    \/ \E p \in Range(PlatformScrapers) : AttemptStarts(p, FALSE, "p1")
    \/ \E f \in branch["Flipkart"].inflight : StrategySettles("Flipkart", f, "product")
    \/ \E f \in branch["Flipkart"].inflight : ParseSettles("Flipkart", f, "item", 5, FALSE)
    \/ \E f \in branch["Meesho"].inflight :
          \E payload \in BranchPayloads : StrategySettles("Meesho", f, payload)
    \/ \E f \in branch["Meesho"].inflight : \E outcome \in BranchOutcomes :
          ParseSettles("Meesho", f, outcome, IF outcome = "item" THEN 3 ELSE 0, FALSE)
    \/ AttemptTimesOut("Meesho")
    \/ SearchCollect(0, "ok")

SpecBranch == InitCompare /\ [][BranchNext]_vars

\* Cache hits: a product and a comparison are cached, by the calls themselves
\* or by another caller, and asked for again before and after they expire
HitInstants == {T0 + 3, T0 + 61}

HitNext ==
    \/ \E t \in HitInstants : Tick(t)
    \/ \E o \in {"ok", "error"} : CacheProduct("B01", ScrapedData("B01", now), o)
    \/ \E url \in Urls : ScrapeStart(url)
    \/ \E o \in {"product", "auth"} : OxylabsFetch(o, "ok")
    \/ \E term \in {"milk", "MILK"} : SearchStart(term)
    \/ \E prices \in OxylabsLists : SearchOxylabs(prices, "ok")
    \/ \E p \in SelectProxies : MarkProxyRateLimitedOld(p)

SpecHit == InitPipeline /\ [][HitNext]_vars

\* Suspended: the proxies are rate limited at two instants, and the call of
\* scrapeAmazonProduct starts when every one of them is
SuspendedNext ==
    \/ pipe.pc = "idle" /\ Tick(T0 + 1)
    \/ \E p \in Range(CORS_PROXIES) : pipe.pc = "idle" /\ MarkProxyRateLimitedOld(p)
    \/ /\ \A p \in Range(CORS_PROXIES) : isProxyRateLimitedOld(rateLimitedProxies, p, now)
       /\ ScrapeStart("https://www.amazon.in/dp/B01")
    \/ \E o \in {"auth", "product"} : OxylabsFetch(o, "ok")
    \/ \E o \in {"throws", "blocked", "parsed"} : StrategyAttempt(o, "ok")
    \/ \E o \in {"throws", "captcha", "parsed"} : RotationAttempt(o, "ok")
    \/ \E o \in {"product", "null"} : ServerAttempt(o, "ok")

SpecSuspended == InitPipeline /\ [][SuspendedNext]_vars

\* Deadlines: proxies of the advanced registry with response times of their
\* own, and scrapeMeesho through them
DeadlineProxies == {"p1", "p2"}
ResponseTimes == {10000, 12000}

InitDeadline ==
    Init /\ generation = "advanced" /\ cacheGeneration = "guarded"
         /\ callLimit = MaxCalls + 1

DeadlineNext ==
    \/ Tick(T0 + 1)
    \/ \E p \in DeadlineProxies, rt \in ResponseTimes : RecordProxySuccess(p, rt, "meesho")
    \/ \E p \in DeadlineProxies,
          responses \in [1..(ADVANCED_MAX_RETRIES + 1) -> {"product", "http500"}],
          extracted \in BOOLEAN :
          ScrapeMeesho(p, responses, extracted, TRUE)

SpecDeadline == InitDeadline /\ [][DeadlineNext]_vars

\* Retries: calls of fetchWithRetry with every maxRetries, on proxies some of
\* which are rate limited beforehand
RetryLists == {<< >>, <<"p1", "p2">>, CORS_PROXIES}
RetryOutcomes == {"200", "403", "404", "500", "timeout"}

RetryNext ==
    \/ Tick(T0 + 1)
    \/ \E p \in SelectProxies : fetchCall.pc = "idle" /\ MarkProxyRateLimitedOld(p)
    \/ \E ps \in RetryLists, m \in 1..MaxRetries, r \in BOOLEAN :
          FetchWithRetryStart(ps, m, r)
    \/ \E random \in 1..Len(CORS_PROXIES), o \in RetryOutcomes \cup {"networkError"} :
          FetchWithRetryTurn(random, o)

SpecRetry == InitPipeline /\ [][RetryNext]_vars

\* Attempts: every loop that retries, run to its end: fetchWithRetry,
\* fetchWithAdvancedHandling with every maxRetries, the requests of the
\* Oxylabs method, and the attempts of the branches of a search
AttemptResponses == {"product", "http500"}

AttemptsNext ==
    \/ \E m \in 1..MaxRetries, r \in BOOLEAN :
          /\ pipe.pc = "idle" /\ search.pc = "idle"
          /\ FetchWithRetryStart(<<"p1", "p2">>, m, r)
    \/ \E random \in 1..2, o \in {"200", "500", "timeout", "networkError"} :
          FetchWithRetryTurn(random, o)
    \/ \E m \in 0..MaxRetries : \E responses \in [1..(m + 1) -> AttemptResponses] :
          FetchWithAdvancedHandlingCall("p1", responses, m)
    \/ /\ fetchCall.pc = "idle" /\ search.pc = "idle"
       /\ ScrapeStart("https://www.amazon.in/dp/B01")
    \/ \E o \in OxylabsOutcomes : OxylabsFetch(o, "ok")
    \/ /\ fetchCall.pc = "idle" /\ pipe.pc = "idle" /\ search.pc = "idle"
       /\ SearchStart("milk")
    \/ SearchOxylabs(<< >>, "ok")
    \/ \E p \in Range(PlatformScrapers) : AttemptStarts(p, FALSE, "p1")
    \/ \E p \in Range(PlatformScrapers) : \E f \in branch[p].inflight :
          StrategySettles(p, f, "http403")

SpecAttempts == InitSelect /\ [][AttemptsNext]_vars

\* Exhausted: a call of scrapeAmazonProduct, then calls of the comparison
\* search, in which every method can fail. Before the call another caller
\* may have cached the product, and the entry may have expired since.
ExhaustedInstants == {T0 + 31, T0 + 95}

ExhaustedNext ==
    \/ \E t \in ExhaustedInstants :
          pipe.pc \in {"idle", "done"} /\ search.pc \in {"idle", "done"} /\ Tick(t)
    \/ pipe.pc = "idle" /\ CacheProduct("B01", ScrapedData("B01", now), "ok")
    \/ search.pc = "idle" /\ ScrapeStart("https://www.amazon.in/dp/B01")
    \/ \E o \in {"auth", "product"} : OxylabsFetch(o, "ok")
    \/ StrategyAttempt("throws", "ok")
    \/ RotationAttempt("throws", "ok")
    \/ \E o \in {"product", "null"} : ServerAttempt(o, "ok")
    \/ pipe.pc = "done" /\ SearchStart("milk")
    \/ \E prices \in {<< >>, <<5, 3>>} : SearchOxylabs(prices, "ok")
    \/ \E p \in Range(PlatformScrapers) : AttemptStarts(p, FALSE, "p1")
    \/ \E p \in Range(PlatformScrapers) : \E f \in branch[p].inflight :
          StrategySettles(p, f, "product")
    \/ \E f \in branch["Flipkart"].inflight : \E outcome \in CompareOutcomes :
          ParseSettles("Flipkart", f, outcome, IF outcome = "item" THEN 3 ELSE 0, FALSE)
    \/ \E f \in branch["Meesho"].inflight :
          ParseSettles("Meesho", f, "noResults", 0, FALSE)
    \/ SearchCollect(0, "ok")
    \/ \E serverResults \in ServerLists : SearchServer(serverResults, "ok")
    \/ SearchEstimate(<<5, 3>>)

SpecExhausted == InitPipeline /\ [][ExhaustedNext]_vars

\* Suspension: one proxy of the advanced registry fails often enough for a
\* suspension that outlasts the 30-minute window of its blocked patterns
InitSuspension ==
    Init /\ generation = "advanced" /\ cacheGeneration = "guarded"
         /\ callLimit = SuspensionCalls

SuspensionNext ==
    \/ \E t \in BackoffInstants : Tick(t)
    \/ \E r \in {{"blocked"}, {"forbidden"}} : RecordProxyFailure("p1", "amazon", r, NoCode)
    \/ MarkProxyRateLimited("p1", "amazon")

SpecSuspension == InitSuspension /\ [][SuspensionNext]_vars

-----------------------------------------------------------------------------
(* What the claims speak of *)

\* isSuspended(p), in the generation in use
Suspended(p) ==
    IF generation = "advanced" THEN isProxyRateLimited(proxyStats, p, now)
    ELSE isProxyRateLimitedOld(rateLimitedProxies, p, now)

\* suspendedUntil of a suspended proxy
SuspendedUntil(p) ==
    IF generation = "advanced" THEN proxyStats[p].rateLimitedUntil
    ELSE rateLimitedProxies[p]

SelectionOps == {"getBestAvailableProxy", "getBestProxyForPlatform",
                 "getNonRateLimitedProxy", "getBestProxy", "getProxyForPlatform"}
SuspensionAwareOps == {"getBestAvailableProxy", "getBestProxyForPlatform",
                       "getNonRateLimitedProxy"}

\* C1: the success rate of every intermediary is in [0,1): never negative, and
\* strictly below 1, whatever successes and failures were recorded.
C1_SuccessRateBelowOne ==
    /\ \A p \in DOMAIN proxyStats :
          /\ 0 <= proxyStats[p].successRate[1]
          /\ proxyStats[p].successRate[1] < proxyStats[p].successRate[2]
    /\ \A p \in DOMAIN proxyStatsOld :
          /\ 0 <= SuccessRateOld(proxyStatsOld[p])[1]
          /\ SuccessRateOld(proxyStatsOld[p])[1] < SuccessRateOld(proxyStatsOld[p])[2]

\* the rank of a method in the cascade, and the requests it may send
Methods == {"oxylabs", "strategy", "standard", "server"}

Rank(m) ==
    CASE m = "oxylabs" -> 1
      [] m = "strategy" -> 2
      [] m = "standard" -> 3
      [] m = "server" -> 4

Budget(m) ==
    CASE m = "oxylabs" -> OXYLABS_MAX_RETRIES
      [] m = "strategy" -> Len(CORS_PROXIES)
      [] m = "standard" -> Len(CORS_PROXIES)
      [] m = "server" -> 1

Count(attempts, m) == Cardinality({k \in 1..Len(attempts) : attempts[k] = m})

\* C2: within one call of scrapeAmazonProduct the methods run strictly in rank
\* order: no request of a method follows a request of a later-ranked one, and
\* when a method sends a request every earlier-ranked method has sent its
\* full budget of requests; no method is skipped or reordered.
C2_MethodsInRankOrder ==
    /\ \A k \in 1..(Len(pipe.attempts) - 1) :
          Rank(pipe.attempts[k]) <= Rank(pipe.attempts[k + 1])
    /\ \A k \in 1..Len(pipe.attempts) : \A m \in Methods :
          Rank(m) < Rank(pipe.attempts[k]) => Count(pipe.attempts, m) = Budget(m)

\* Oxylabs and the Amazon strategy failed on every request and the standard
\* rotation then returned a product
C2_Witness ==
    /\ pipe.pc = "done"
    /\ pipe.source = "standard"
    /\ Count(pipe.attempts, "oxylabs") = OXYLABS_MAX_RETRIES
    /\ Count(pipe.attempts, "strategy") = Len(CORS_PROXIES)
    /\ pipe.result = ret.result

\* C3, as claimed: scrapeAmazonProduct returns a record for every URL and
\* every combination of failures, never null.
C3_AlwaysARecord ==
    ret.op = "scrapeAmazonProduct" => ret.result # NoValue

\* C3, amended: scrapeAmazonProduct returns null exactly when the URL is not
\* an Amazon URL or carries no product id; for every other URL it returns a
\* record, which is the placeholder when every method has failed.
C3_RecordUnlessInvalidUrl ==
    ret.op = "scrapeAmazonProduct" =>
        /\ ret.result = NoValue <=>
              (~isAmazonUrl(ret.url) \/ extractASIN(ret.url) = NoAsin)
        /\ pipe.source = "mock" => ret.result = Placeholder(pipe.asin, now)

\* every request of every method failed and the call returned the placeholder
C3_Witness ==
    /\ ret.op = "scrapeAmazonProduct"
    /\ pipe.source = "mock"
    /\ \A m \in Methods : Count(pipe.attempts, m) = Budget(m)
    /\ ret.result = Placeholder(pipe.asin, now)

\* C4: on an acquisition that misses the cache, server-side scraping is
\* attempted before Oxylabs, before the platform strategy and before the
\* standard rotation: every request of those methods follows a request to the
\* server.
C4_ServerSideFirst ==
    \A k \in 1..Len(pipe.attempts) :
        pipe.attempts[k] # "server" =>
            \E j \in 1..(k - 1) : pipe.attempts[j] = "server"

\* C5: in the guarded generation, a get(k) performed immediately after
\* put(k, v) returns v (up to the JSON form of v), when the storage took the
\* write and also when it rejected the write for lack of space and the put
\* saved the cache again after evicting the oldest half.
C5_GetAfterPutReturnsValue ==
    /\ (/\ cacheGeneration = "guarded"
        /\ ret.op = "cacheProduct"
        /\ ret.outcome \in {"ok", "quota-ok"}) =>
          ToJSON(CachedValue(productStore, ret.key, now, PRODUCT_CACHE_TTL))
              = ToJSON(ret.data)
    /\ (/\ cacheGeneration = "guarded"
        /\ ret.op = "cacheComparison"
        /\ ret.outcome \in {"ok", "quota-ok"}) =>
          ToJSON(CachedValue(comparisonStore, NormalizeTerm(ret.key), now,
                             COMPARISON_CACHE_TTL))
              = ToJSON(ret.data)

C8_EverySelectionAvoidsSuspended ==
    (/\ ret.op \in SelectionOps
     /\ \E p \in Range(ret.proxies) : ~Suspended(p))
    => ~Suspended(ret.result)

\* C8, amended: whenever some candidate is not suspended, getBestAvailableProxy,
\* getBestProxyForPlatform and getNonRateLimitedProxy return a proxy that is not
\* suspended.
C8_AwareSelectionAvoidsSuspended ==
    (/\ ret.op \in SuspensionAwareOps
     /\ \E p \in Range(ret.proxies) : ~Suspended(p))
    => ~Suspended(ret.result)

\* a selection among a suspended first candidate and a free second one took the second
C8_Witness ==
    /\ ret.op \in {"getBestAvailableProxy", "getNonRateLimitedProxy"}
    /\ Len(ret.proxies) = 2
    /\ Suspended(ret.proxies[1])
    /\ ~Suspended(ret.proxies[2])
    /\ ret.result = ret.proxies[2]

\* C9: when every candidate is suspended, getBestAvailableProxy and
\* getNonRateLimitedProxy return a candidate of the least suspendedUntil.
C9_AllSuspendedReturnsSoonest ==
    (/\ ret.op \in {"getBestAvailableProxy", "getNonRateLimitedProxy"}
     /\ ret.proxies # <<>>
     /\ \A p \in Range(ret.proxies) : Suspended(p))
    => /\ ret.result \in Range(ret.proxies)
       /\ \A p \in Range(ret.proxies) : SuspendedUntil(ret.result) <= SuspendedUntil(p)

\* both candidates suspended, the second one expiring first, and it was returned
C9_Witness ==
    /\ ret.op = "getBestAvailableProxy"
    /\ Len(ret.proxies) = 2
    /\ \A p \in Range(ret.proxies) : Suspended(p)
    /\ SuspendedUntil(ret.proxies[2]) < SuspendedUntil(ret.proxies[1])
    /\ ret.result = ret.proxies[2]

\* C10: of two consecutive block failures of one proxy recorded within 30
\* minutes, the later one gets the strictly longer suspension window.
C10_WindowsStrictlyIncrease ==
    \A p \in Proxies :
        \A k \in 1..(Len(rateLimitLog[p]) - 1) :
            rateLimitLog[p][k + 1].at - rateLimitLog[p][k].at < RATE_LIMIT_WINDOW
            => rateLimitLog[p][k + 1].minutes > rateLimitLog[p][k].minutes

\* p carries a suspension, running or run out
HasSuspension(p) ==
    IF generation = "advanced"
    THEN p \in DOMAIN proxyStats /\ proxyStats[p].rateLimitedUntil # Null
    ELSE p \in DOMAIN rateLimitedProxies

\* the suspension of p has run out: now > suspendedUntil
Lapsed(p) == HasSuspension(p) /\ now > SuspendedUntil(p)

\* before suspendedUntil the proxy is suspended, after it it is not, and
\* suspendedUntil is never further away than the longest window
C11_SuspendedExactlyUntil ==
    \A p \in Proxies :
        HasSuspension(p) =>
            /\ now < SuspendedUntil(p) => Suspended(p)
            /\ now > SuspendedUntil(p) => ~Suspended(p)
            /\ SuspendedUntil(p) <= now + MAX_BACKOFF

\* a selection among a proxy whose suspension has run out and proxies that
\* are suspended returns the former
C11_LapsedIsEligible ==
    \A p \in Proxies :
        (/\ Lapsed(p)
         /\ now' = now
         /\ ret'.op \in {"getBestAvailableProxy", "getNonRateLimitedProxy"}
         /\ p \in Range(ret'.proxies)
         /\ \A q \in Range(ret'.proxies) \ {p} : Suspended(q))
        => ret'.result = p

\* a suspension ends only by the clock reaching suspendedUntil
C11_ClearedOnlyByTime ==
    \A p \in Proxies :
        (Suspended(p) /\ ~Suspended(p)') => (now' > now /\ now' >= SuspendedUntil(p))

\* C11: a suspension lapses by time alone. A proxy is suspended before its
\* suspendedUntil and not after it, a proxy whose suspension has run out is
\* selected again, no operation but the clock ends a suspension, and every
\* suspended proxy is eventually not suspended.
C11_SuspensionLapsesByTime ==
    /\ []C11_SuspendedExactlyUntil
    /\ [][C11_LapsedIsEligible]_vars
    /\ [][C11_ClearedOnlyByTime]_vars
    /\ \A p \in Proxies : Suspended(p) ~> ~Suspended(p)

\* the first candidate's suspension has run out, the second one is suspended,
\* and the selection returned the first
C11_Witness ==
    /\ ret.op = "getBestAvailableProxy"
    /\ Len(ret.proxies) = 2
    /\ Lapsed(ret.proxies[1])
    /\ Suspended(ret.proxies[2])
    /\ ret.result = ret.proxies[1]

\* C12: immediately after every recordProxyFailure whose status code is 403 or
\* 429, or whose reason holds a rate-limit, challenge, blocked or forbidden
\* pattern, the proxy is suspended, with or without a platform and a reason.
C12_BlockFailureSuspends ==
    (/\ ret.op = "recordProxyFailure"
     /\ \/ ret.statusCode \in {403, 429}
        \/ \E pattern \in Patterns : Includes(ret.reason, pattern))
    => Suspended(ret.proxy)

\* C13: on every fetch path (standardScraping, jsRenderingScraping, scrapeMeesho
\* over fetchWithAdvancedHandling), once an attempt ended by a payload that
\* holds "captcha" has been classified as a challenge and its failure has been
\* recorded, the proxy that served the payload is suspended.
C13_CaptchaSuspends ==
    (/\ ret.op \in {"standardScraping", "jsRenderingScraping", "scrapeMeesho"}
     /\ ret.captcha
     /\ ret.challenge
     /\ ret.recorded)
    => Suspended(ret.proxy)

\* C14: no selection raises. Of every candidate list, the empty one and lists
\* of proxies never seen before included, each selection operation returns a
\* proxy or the value that stands for none.
C14_NoSelectionRaises ==
    ret.op \in SelectionOps => ret.result \in Proxies \cup {NoProxy}

\* a selection for a platform whose preferred proxy is not suspended returns
\* the preferred proxy
C15_SelectionReturnsPreferred ==
    (/\ ret.op = "getBestProxyForPlatform"
     /\ ret.platform \in DOMAIN platformProxyMap
     /\ ~Suspended(platformProxyMap[ret.platform].bestProxy))
    => ret.result = platformProxyMap[ret.platform].bestProxy

\* a success or a failure recorded for another proxy leaves the preferred
\* proxy of every platform in place, if that one is not suspended
C15_OthersLeavePreferred ==
    \A platform \in DOMAIN platformProxyMap :
        (/\ ret'.op \in {"recordProxySuccess", "recordProxyFailure"}
         /\ ret'.proxy # platformProxyMap[platform].bestProxy
         /\ ~Suspended(platformProxyMap[platform].bestProxy))
        => platformProxyMap'[platform].bestProxy = platformProxyMap[platform].bestProxy

\* C15: the platform preference is sticky. Once a proxy is the one recorded
\* for a platform, every selection for the platform returns it while it is
\* not suspended, whatever is recorded for other proxies in between.
C15_PreferenceIsSticky ==
    /\ []C15_SelectionReturnsPreferred
    /\ [][C15_OthersLeavePreferred]_vars

\* the list that the last call of searchProductOnPlatforms returned
SearchReturnedList == search.pc = "done"

IsSortedByPrice(results) ==
    \A i \in 1..Len(results) - 1 : results[i].price <= results[i + 1].price

FlaggedLowest(results) == {i \in 1..Len(results) : results[i].isLowestPrice}

\* the platforms whose branch of the last call returned an item
SucceededPlatforms == {p \in Range(PlatformScrapers) : branch[p].value # NoItem}

\* C16: every list that searchProductOnPlatforms returns is sorted by price,
\* lowest first, whichever path returned it: the hosted API, the platforms,
\* the server, the estimate or the cache.
C16_ReturnedSortedByPrice == SearchReturnedList => IsSortedByPrice(search.result)

\* C17: in every non-empty list that searchProductOnPlatforms returns exactly
\* one record has isLowestPrice set, and its price is the least of the list,
\* also when two records share the least price.
C17_OneLowestPriceFlag ==
    (SearchReturnedList /\ search.result # << >>) =>
        /\ Cardinality(FlaggedLowest(search.result)) = 1
        /\ \A i \in FlaggedLowest(search.result) :
              search.result[i].price = MinPrice(search.result)

\* C18: a call that went to the platforms returns one record for each platform
\* whose branch returned an item and no other record: k records when k of the
\* platforms succeed, none when none does.
C18_OneRecordPerSucceededPlatform ==
    (SearchReturnedList /\ search.path \in {"client", "server", "estimated"}) =>
        /\ Len(search.result) = Cardinality(SucceededPlatforms)
        /\ \A i \in 1..Len(search.result) : search.result[i].marketplace \in SucceededPlatforms

\* C19: the attempts of one platform run one after the other: at every moment
\* at most one request of the platform is in flight, so that no attempt
\* starts while the request of the attempt before is still out, an attempt
\* that its timer ended included.
C19_OneFetchInFlight ==
    \A p \in Range(PlatformScrapers) : Cardinality(branch[p].inflight) <= 1

SettleOps == {"strategySettles", "parseSettles"}

\* no request of an attempt that has ended is in flight
C20_EndedAttemptAborted ==
    \A p \in Range(PlatformScrapers) :
        \A f \in branch[p].inflight : IsCurrent(branch[p], f)

\* a step of an attempt that has ended sends no request and leaves the
\* registry, the proxy kept for the platform and the caches as they are
C20_AbandonedStepIsInert ==
    (ret'.op \in SettleOps /\ ret'.abandoned) =>
        /\ UNCHANGED <<proxyStatsOld, rateLimitedProxies, platformStore,
                       productStore, comparisonStore>>
        /\ \A p \in Range(PlatformScrapers) :
              branch'[p].inflight \subseteq branch[p].inflight

\* C20: when the timer of an attempt ends it, the request of the attempt is
\* aborted, and from then on the attempt sends no request and changes neither
\* the registry nor the proxy kept for the platform nor the cache.
C20_TimedOutAttemptStops ==
    []C20_EndedAttemptAborted /\ [][C20_AbandonedStepIsInert]_vars

\* the block events that the registry holds of p and that were recorded less
\* than 30 minutes before t
RecentBlockEvents(p, t) ==
    {k \in 1..Len(proxyStats[p].blockedPatterns) :
        LET bp == proxyStats[p].blockedPatterns[k]
        IN  /\ Patterns \cap bp.reason \cap {"rate limit", "captcha", "blocked"} # {}
            /\ t - bp.timestamp < RATE_LIMIT_WINDOW}

\* the last operation suspended ret.proxy
JustSuspended ==
    \/ ret.op = "markProxyRateLimited"
    \/ ret.op = "recordProxyFailure" /\ ret.rateLimited

\* C24: the window that a suspension sets is min(2^n, 120) minutes, n being
\* the number of block events of the proxy recorded in the last 30 minutes:
\* an older event does not lengthen the window, whatever its reason.
C24_WindowCountsRecentEvents ==
    JustSuspended =>
        proxyStats[ret.proxy].rateLimitedUntil - now =
            Min(Pow2(Cardinality(RecentBlockEvents(ret.proxy, now))), MAX_BACKOFF)

\* when the registry last saw p used: its last success or failure, Null if none
LastUse(p) == Max(proxyStats[p].lastSuccess, proxyStats[p].lastFailure)

\* the candidates of the last selection that its filter let through
Candidates == {p \in Range(ret.proxies) : NotRateLimitedAt(proxyStats, p, now)}

\* ... and those of them that no other candidate outscores
TopScored ==
    {p \in Candidates :
        \A q \in Candidates : ~FracLess(Score(proxyStats[p], now), Score(proxyStats[q], now))}

\* C25: getBestAvailableProxy returns a candidate of the highest score, and
\* of several candidates with the highest score the one used least recently,
\* not the one that comes first in the list.
C25_TieGoesToLeastRecentlyUsed ==
    (ret.op = "getBestAvailableProxy" /\ Candidates # {}) =>
        /\ ret.result \in TopScored
        /\ \A q \in TopScored : LastUse(ret.result) <= LastUse(q)

\* C22: the length of a payload is looked at before its content: a payload
\* below the least valid length is too short even when it holds a challenge
\* marker, so it is not counted as a challenge and does not suspend the proxy.
C22_ShortPayloadIsNoChallenge ==
    (ret.op \in {"standardScraping", "scrapeMeesho"} /\ ret.short) =>
        ~ret.challenge /\ ~ret.marked

\* the step starts a call of scrapeAmazonProduct for a product that
\* getCachedProduct returns
ProductHit ==
    /\ pipe.pc = "idle" /\ pipe'.pc # "idle" /\ pipe'.asin # NoAsin
    /\ CachedValue(productStore, pipe'.asin, now, PRODUCT_CACHE_TTL) # NoValue

\* the step starts a call of searchProductOnPlatforms for a term that
\* getCachedComparison returns
ComparisonHit ==
    /\ search'.count = search.count + 1
    /\ CachedValue(comparisonStore, NormalizeTerm(search'.term), now,
                   COMPARISON_CACHE_TTL) # NoValue

RegistryAndCacheUnchanged ==
    UNCHANGED <<registryVars, oldRegistryVars, productStore, comparisonStore>>

C23_ProductHitStep ==
    ProductHit =>
        /\ pipe'.pc = "done"
        /\ pipe'.result = CachedValue(productStore, pipe'.asin, now, PRODUCT_CACHE_TTL)
        /\ pipe'.attempts = << >>
        /\ RegistryAndCacheUnchanged

C23_ComparisonHitStep ==
    ComparisonHit =>
        /\ search'.pc = "done"
        /\ search'.result = CachedValue(comparisonStore, NormalizeTerm(search'.term), now,
                                        COMPARISON_CACHE_TTL).items
        /\ \A p \in Range(PlatformScrapers) : branch'[p] = FreshBranch
        /\ RegistryAndCacheUnchanged

\* C23: when the cache holds a valid entry for the key asked for,
\* scrapeAmazonProduct and searchProductOnPlatforms return it without trying
\* any method, and leave the registry and the stores of the cache unchanged.
C23_CacheHitShortCircuits ==
    [][C23_ProductHitStep /\ C23_ComparisonHitStep]_vars

\* both calls have returned from the cache
C23_Witness ==
    /\ pipe.pc = "done" /\ pipe.source = "cache" /\ pipe.result # NoValue
    /\ search.pc = "done" /\ search.path = "cache" /\ search.result # << >>
    /\ rateLimitedProxies # << >>

AllSuspended ==
    \A p \in Range(CORS_PROXIES) : isProxyRateLimitedOld(rateLimitedProxies, p, now)

SoonestToExpire ==
    {p \in Range(CORS_PROXIES) :
        \A q \in Range(CORS_PROXIES) : rateLimitedProxies[p] <= rateLimitedProxies[q]}

\* a failed attempt of the Amazon strategy or of the standard rotation
FailedProxyAttempt ==
    /\ pipe.pc \in {"strategy", "standard"}
    /\ pipe'.attempts # pipe.attempts
    /\ ret'.op = "scrapeStep"

\* C21: when every proxy is rate limited, the call of scrapeAmazonProduct
\* still ends with a result, without waiting for a rate limit to run out,
\* and each attempt it makes goes through the proxy whose rate limit runs out
\* soonest.
C21_SuspendedUsesSoonest ==
    /\ []((pipe.pc = "done" /\ pipe.source # "invalid") => pipe.result # NoValue)
    /\ [][(FailedProxyAttempt /\ AllSuspended)
             => (now' = now /\ ret'.proxy \in SoonestToExpire)]_vars

\* C26: the timeout of a fetch of fetchWithAdvancedHandling through a proxy is
\* computed from the response times recorded for that proxy (their mean plus
\* two standard deviations, between 10 and 40 seconds), so that it is the
\* base timeout only when the proxy has no recorded response time.
C26_DeadlineFromOwnHistory ==
    [][ret'.op = "scrapeMeesho"
         => ret'.timeout = getAdaptiveTimeout(proxyStats, ret'.proxy, BASE_TIMEOUT)]_vars

\* C27: in fetchWithRetry the timeout of every retry is the timeout of the
\* attempt before it multiplied by 1.5.
C27_DeadlineGrowsByHalf ==
    \A k \in 2..Len(fetchCall.timeouts) :
        2 * fetchCall.timeouts[k] = 3 * fetchCall.timeouts[k - 1]

\* the attempt that the step makes, when it makes one
AttemptMade == Len(fetchCall'.log) = Len(fetchCall.log) + 1
ThisAttempt == fetchCall'.log[Len(fetchCall'.log)]
LastAttempt == fetchCall.log[Len(fetchCall.log)]

\* a proxy of the list other than proxy that is not rate limited
OtherUnsuspended(proxy) ==
    \E q \in Range(fetchCall.proxies) \ {proxy} :
        ~isProxyRateLimitedOld(rateLimitedProxies, q, now)

C28_BlockedIsMarked ==
    (AttemptMade /\ IsBlockedStatus(ThisAttempt.outcome)) =>
        /\ ThisAttempt.proxy \in DOMAIN rateLimitedProxies'
        /\ rateLimitedProxies'[ThisAttempt.proxy] = now + OLD_RATE_LIMIT
        /\ isProxyRateLimitedOld(rateLimitedProxies', ThisAttempt.proxy, now)

C28_NextGoesElsewhere ==
    (/\ AttemptMade
     /\ fetchCall.log # << >>
     /\ IsBlockedStatus(LastAttempt.outcome)
     /\ OtherUnsuspended(LastAttempt.proxy)) => ThisAttempt.proxy # LastAttempt.proxy

C28_ClientErrorEnds ==
    /\ (AttemptMade /\ ThisAttempt.outcome = "404") => fetchCall'.pc = "returned"
    /\ fetchCall.pc = "returned" => fetchCall'.log = fetchCall.log

\* C28: in fetchWithRetry, an attempt through a proxy that ends with 403,
\* 429 or 503 rate limits the proxy, and the next attempt of the call goes
\* through another proxy whenever the list holds another proxy that is not
\* rate limited; a 4xx other than 403 and 429 ends the call without a
\* further attempt.
C28_BlockedMovesOn ==
    [][C28_BlockedIsMarked /\ C28_NextGoesElsewhere /\ C28_ClientErrorEnds]_vars

\* a 403 through one proxy, then a 404 through the other, which ends the call
C28_Witness ==
    /\ fetchCall.pc = "returned"
    /\ Len(fetchCall.log) = 2
    /\ fetchCall.log[1].outcome = "403"
    /\ fetchCall.log[2].outcome = "404"
    /\ fetchCall.log[2].proxy # fetchCall.log[1].proxy
    /\ isProxyRateLimitedOld(rateLimitedProxies, fetchCall.log[1].proxy, now)

\* the requests that the Oxylabs method of the call has sent
OxylabsRequests == Cardinality({k \in 1..Len(pipe.attempts) : pipe.attempts[k] = "oxylabs"})

\* C29: a call of a method that retries makes at most maxRetries fetches,
\* however its fetches end: fetchWithRetry and fetchWithAdvancedHandling with
\* the maxRetries that they are given, OxylabsService.scrapeAmazonProduct
\* with its maxRetries of 3.
C29_AtMostMaxRetriesFetches ==
    /\ Len(fetchCall.log) <= fetchCall.maxRetries
    /\ ret.op = "fetchWithAdvancedHandling" => ret.calls <= ret.maxRetries
    /\ OxylabsRequests <= OXYLABS_MAX_RETRIES

\* every wait is the first one doubled once per retry since, up to the cap
DoublesUpToCap(delays) ==
    \A n \in 1..Len(delays) : delays[n] = Min(delays[1] * Pow2(n - 1), BACKOFF_CAP)

\* C30: in every loop that retries (fetchWithRetry, fetchWithAdvancedHandling,
\* the requests of the Oxylabs method, the attempts of a branch of the
\* search) the wait before retry n is min(base * 2^n, cap) for one cap, so
\* that no wait is longer than the cap whatever maxRetries is.
C30_DelayIsCappedExponential ==
    /\ DoublesUpToCap(fetchCall.delays)
    /\ ret.op = "fetchWithAdvancedHandling" => DoublesUpToCap(ret.delays)
    /\ DoublesUpToCap(pipe.delays)
    /\ \A p \in Range(PlatformScrapers) : DoublesUpToCap(branch[p].delays)

\* the step is an attempt of the Amazon strategy or of the standard rotation
\* whose page was fetched and gave no product
ExtractionFailed ==
    /\ pipe.pc \in {"strategy", "standard"}
    /\ pipe'.attempts # pipe.attempts
    /\ ret'.op = "scrapeStep"
    /\ ret'.outcome \in {"unparsed", "unextracted"}

\* C31: when a page is fetched and no product is extracted from it, the call
\* of scrapeAmazonProduct moves to the next method: the Amazon strategy and
\* the standard rotation are not attempted again after an extraction failure
\* of their own.
C31_ExtractionFailureMovesOn ==
    [][ExtractionFailed => pipe'.pc # pipe.pc]_vars

\* the step is a request of the Oxylabs method answered 401 or 403
AuthFailed ==
    /\ pipe.pc = "oxylabs"
    /\ pipe'.attempts # pipe.attempts
    /\ ret'.op = "scrapeStep"
    /\ ret'.outcome = "auth"

\* C32: when the hosted API answers 401 or 403,
\* OxylabsService.scrapeAmazonProduct sends no further request and does not
\* wait, and scrapeAmazonProduct goes on with the next method.
C32_AuthFailureIsNotRetried ==
    [][AuthFailed => (pipe'.pc = "strategy" /\ pipe'.delays = pipe.delays)]_vars

\* the store holds an entry of the key that is older than the TTL
OlderThanTTL(store, key, ttl) == HasKey(store, key) /\ now - CachedAt(store, key) > ttl

\* a get on a store: an entry older than the TTL is gone afterwards, anything
\* else leaves the store as it is
LazyExpiry(store, storeAfter, key, ttl) ==
    IF OlderThanTTL(store, key, ttl) THEN ~HasKey(storeAfter, key)
    ELSE storeAfter = store

\* C33: a get that finds an entry older than its TTL removes it, so that the
\* store does not hold the key right after the get; a get never removes or
\* changes an entry that has not expired.
C33_GetRemovesExpired ==
    [][/\ ret'.op = "getCachedProduct"
          => LazyExpiry(productStore, productStore', ret'.key, PRODUCT_CACHE_TTL)
       /\ ret'.op = "getCachedComparison"
          => LazyExpiry(comparisonStore, comparisonStore',
                        ComparisonKey(cacheGeneration, ret'.key),
                        COMPARISON_CACHE_TTL)]_vars

\* the entries of a store that a put has dropped, and the ones it has kept
DroppedBy(store, storeAfter) ==
    {i \in 1..Len(store) : ~HasKey(storeAfter, store[i].key)}

\* a put with eviction: nothing dropped is younger than anything kept, and
\* the key written is in the store
OldestEvictedFirst(store, storeAfter, key) ==
    /\ \A i \in DroppedBy(store, storeAfter) : \A k \in 1..Len(storeAfter) :
          store[i].timestamp <= storeAfter[k].timestamp
    /\ HasKey(storeAfter, key)

\* C34: when a put evicts, no entry is dropped while an entry with an older
\* timestamp is kept, and the entry being written, the newest one, is in the
\* store after the put.
C34_EvictionDropsOldestFirst ==
    [][/\ (ret'.op = "cacheProduct" /\ ret'.outcome = "quota-ok"
           /\ cacheGeneration = "guarded")
          => OldestEvictedFirst(productStore, productStore', ret'.key)
       /\ (ret'.op = "cacheComparison" /\ ret'.outcome = "quota-ok"
           /\ cacheGeneration = "guarded")
          => OldestEvictedFirst(comparisonStore, comparisonStore',
                                NormalizeTerm(ret'.key))]_vars

\* the store holds an entry that has not expired, put under a key that
\* differs from key in letter case and outer whitespace at most
PutUnderSameKey(store, key, ttl) ==
    \E i \in 1..Len(store) :
        /\ NormalizeTerm(store[i].key) = NormalizeTerm(key)
        /\ IsFresh(now, store[i].timestamp, ttl)

\* C35: keys are normalised by put and by get: a get under a key that
\* differs only in letter case or in outer whitespace from the key of a put
\* is a hit, in the product cache and in the comparison cache.
C35_KeysAreNormalised ==
    /\ (ret.op = "getCachedProduct"
        /\ PutUnderSameKey(productStore, ret.key, PRODUCT_CACHE_TTL))
          => ret.result # NoValue
    /\ (ret.op = "getCachedComparison"
        /\ PutUnderSameKey(comparisonStore, ret.key, COMPARISON_CACHE_TTL))
          => ret.result # NoValue

\* the call of scrapeAmazonProduct ended with the placeholder
EndedWithPlaceholder == pipe.pc = "done" /\ pipe.source = "mock"

\* the comparison search ended with estimated data
EndedWithEstimate == search.pc = "done" /\ search.path = "estimated"

\* C36: the placeholder of an exhausted call and the estimated comparison are
\* never written to the cache: no stored product is the placeholder, and
\* after a call that ended with either, a request for the same key finds no
\* valid entry, so it attempts the acquisition methods again.
C36_ExhaustedIsNotCached ==
    /\ \A i \in 1..Len(productStore) :
          productStore[i].data.name # Placeholder(productStore[i].key, now).name
    /\ EndedWithPlaceholder
          => CachedValue(productStore, pipe.asin, now, PRODUCT_CACHE_TTL) = NoValue
    /\ EndedWithEstimate
          => GetResult(cacheGeneration, comparisonStore,
                       ComparisonKey(cacheGeneration, search.term), now,
                       COMPARISON_CACHE_TTL) = NoValue

\* both calls ended exhausted, the search for the second time, with entries
\* of earlier calls still in both stores
C36_Witness ==
    /\ EndedWithPlaceholder
    /\ EndedWithEstimate
    /\ search.count >= 2
    /\ productStore # << >>
    /\ comparisonStore # << >>

\* successCount or failureCount of a proxy, 0 while the registry has no
\* statistics for it
CountOf(stats, proxy, field) == IF proxy \in DOMAIN stats THEN stats[proxy][field] ELSE 0

\* a turn of fetchWithRetry in which a request was sent through a proxy
FetchAttempted ==
    /\ fetchCall.pc = "running"
    /\ ret'.op = "fetchWithRetryTurn"
    /\ ret'.fetched

\* the attempt of that turn: its proxy and its outcome
AttemptOfTurn == fetchCall'.log[Len(fetchCall'.log)]

\* C37: every fetch attempt through a proxy records exactly one outcome for
\* it: one success for a 2xx response, one failure for a timeout, a network
\* error or any other status, and nothing else.
C37_OneOutcomePerAttempt ==
    [][FetchAttempted =>
         LET proxy == AttemptOfTurn.proxy
             ok == AttemptOfTurn.outcome = "200"
         IN  /\ CountOf(proxyStatsOld', proxy, "success")
                   = CountOf(proxyStatsOld, proxy, "success") + (IF ok THEN 1 ELSE 0)
             /\ CountOf(proxyStatsOld', proxy, "failure")
                   = CountOf(proxyStatsOld, proxy, "failure") + (IF ok THEN 0 ELSE 1)]_vars

\* rateLimitedUntil of a proxy, 0 while it has none
RateLimitedUntilOf(stats, proxy) ==
    IF proxy \in DOMAIN stats /\ stats[proxy].rateLimitedUntil # Null
    THEN stats[proxy].rateLimitedUntil ELSE 0

\* C38: recording a block failure never shortens a suspension: the
\* rateLimitedUntil of the proxy after markProxyRateLimited or
\* recordProxyFailure is at least what it was before.
C38_SuspensionNeverShortened ==
    [][ret'.op \in {"markProxyRateLimited", "recordProxyFailure"}
         => RateLimitedUntilOf(proxyStats', ret'.proxy)
               >= RateLimitedUntilOf(proxyStats, ret'.proxy)]_vars

\* C39: every selection returns a member of the candidate list it was given,
\* whenever that list is not empty, also after the platform preference was
\* replaced because its proxy was suspended.
C39_SelectionReturnsCandidate ==
    (ret.op \in SelectionOps /\ ret.proxies # << >>)
        => ret.result \in Range(ret.proxies)

=============================================================================
